---- MODULE Spec2Model ----
(***************************************************************************)
(* Model of the three orchestrators of the meeting-preparation service:    *)
(* generate-brief (src/unnamed/part_003), generate-priorities and          *)
(* inbox-summary (src/netlify/functions/generate-priorities.js).           *)
(* An invocation is a process that advances from one await to the next;    *)
(* the users row and the briefing_logs table are shared by invocations.    *)
(* Every gateway call (Supabase, Google, OpenAI) returns or raises         *)
(* nondeterministically.                                                   *)
(*                                                                         *)
(* Spec        one invocation, with the full range of gateway answers.     *)
(* PairSpec    two invocations in flight together, with short answers.     *)
(* AccountSpec one invocation among the account handlers (session,         *)
(*             profile, history, Google disconnect, account deletion).     *)
(* PureSpec    calls of the pure helpers on arguments drawn from bounded   *)
(*             sets (day health, goals, meeting type, tasks, keywords).    *)
(***************************************************************************)
EXTENDS Integers, Sequences, FiniteSets, TLC

\* ------------------------------------------------------------------ bounds
MaxEvents == 2      \* calendar events returned for today
MaxItems == 1       \* items returned by one search / list call

Procs == {1, 2}     \* request slots
Features == {"brief", "priorities", "inbox"}
Methods == {"POST", "GET"}
Cookies == {"none", "bad", "good"}
ErrTexts == {"e1", "e2"}          \* texts of underlying errors (err.message)
EventKinds == {"meeting", "solo", "cancelled"}
Categories == {"highPriority", "actionRequired", "followUp", "deadlines"}

VARIABLES
    user,       \* the users row of the signed-in account
    logs,       \* the briefing_logs table, in insertion order
    issued,     \* last access token handed out by the token gateway
    inv,        \* per slot: the locals of the handler invocation
    calc        \* a call of one of the pure helpers: its argument and its result

vars == <<user, logs, issued, inv, calc>>

\* ------------------------------------------------------------ helpers
RECURSIVE SeqsUpTo(_, _)
SeqsUpTo(S, n) ==
    IF n = 0 THEN {<<>>}
    ELSE LET shorter == SeqsUpTo(S, n - 1)
         IN shorter \cup {Append(s, x) : s \in {t \in shorter : Len(t) = n - 1}, x \in S}

Last(s) == s[Len(s)]

NoCalls == [userRead |-> 0, userWrite |-> 0, refresh |-> 0, fetch |-> 0, ai |-> 0, send |-> 0]

Bump(c, k) == [c EXCEPT ![k] = @ + 1]

NoUser == [exists |-> FALSE, access |-> 0, refresh |-> 0, expiry |-> 0,
           calendar_id |-> "", goals |-> "", name |-> "", email |-> ""]

\* ------------------------------------------------------------ responses
Resp(code, success, error, count, message) ==
    [code |-> code, success |-> success, error |-> error,
     meeting_count |-> count, message |-> message]

NoResp == Resp(0, FALSE, <<>>, 0, "")
Unauthenticated == Resp(401, FALSE, <<"Not authenticated">>, 0, "")
MethodNotAllowed == Resp(405, FALSE, <<"Method not allowed">>, 0, "")
UserNotFound == Resp(404, FALSE, <<"User not found">>, 0, "")
NoGoogleConnection == Resp(400, FALSE, <<"No Google connection found. Please reconnect.">>, 0, "")

FailurePrefix(f) ==
    CASE f = "brief" -> "Failed to generate brief: "
      [] f = "priorities" -> "Failed to generate priorities: "
      [] f = "inbox" -> "Failed to generate inbox summary: "

\* body of the 500 answer: `${prefix}${err.message}`
FailureResponse(f, msg) == Resp(500, FALSE, <<FailurePrefix(f), msg>>, 0, "")

\* Faulty variant: no handler logs a failure, each answers from its catch.
FailSilently(me, at, e) ==
    [me EXCEPT !.pc = "done", !.err = e, !.failedAt = at, !.gw = <<>>,
               !.resp = FailureResponse(me.feature, e)]

\* The outer catch (err): generate-brief and generate-priorities log the
\* failure in their next step; inbox-summary answers at once, without a log.
Fail(me, at, e) ==
    IF me.feature = "inbox"
    THEN [me EXCEPT !.pc = "done", !.err = e, !.failedAt = at, !.gw = <<>>,
                    !.resp = FailureResponse("inbox", e)]
    ELSE [me EXCEPT !.pc = "logFail", !.err = e, !.failedAt = at, !.gw = <<>>]

Idle == [pc |-> "idle", feature |-> "brief", method |-> "POST", cookie |-> "none",
         user |-> NoUser, cred |-> 0, refreshFailed |-> FALSE, saved |-> FALSE,
         events |-> <<>>, meetings |-> <<>>, gw |-> <<>>,
         briefs |-> <<>>, composed |-> <<>>, sources |-> <<>>,
         listed |-> 0, emails |-> 0, classified |-> <<>>,
         categories |-> [c \in Categories |-> <<>>], categorized |-> 0,
         err |-> "none", failedAt |-> "none", sent |-> FALSE,
         logged |-> <<>>, resp |-> NoResp, calls |-> NoCalls]

\* ------------------------------------------------------------ initial state
\* no helper is being called
NoCalc == [op |-> "none", arg |-> <<>>, out |-> <<>>, done |-> FALSE]

ConnectedUser(rt) ==
    [exists |-> TRUE, access |-> 1, refresh |-> rt, expiry |-> 1,
     calendar_id |-> "primary", goals |-> "", name |-> "Ada", email |-> "ada@example.com"]

DisconnectedUser ==
    [exists |-> TRUE, access |-> 0, refresh |-> 0, expiry |-> 0,
     calendar_id |-> "primary", goals |-> "", name |-> "Ada", email |-> "ada@example.com"]

Init ==
    /\ user \in {ConnectedUser(1), ConnectedUser(0), DisconnectedUser}
    /\ logs = <<>>
    /\ issued = 1
    /\ inv = [p \in Procs |-> Idle]
    /\ calc = NoCalc

\* ------------------------------------------------------------ steps 1-2
\* Faulty variant: the cookie is decoded without verifying its signature.
getUserIdUnverified(c) == IF c \in {"good", "bad"} THEN 1 ELSE 0

\* getUserIdFromCookie: a user id only for a cookie that verifies.
getUserIdFromCookie(c) == IF c = "good" THEN 1 ELSE 0

\* Entry of a handler up to its first await.
Start(p) ==
    /\ inv[p].pc = "idle"
    /\ \E f \in Features, m \in Methods, c \in Cookies :
         LET fresh == [Idle EXCEPT !.feature = f, !.method = m, !.cookie = c]
         IN inv' = [inv EXCEPT ![p] =
                IF m # "POST"
                THEN [fresh EXCEPT !.pc = "done", !.resp = MethodNotAllowed]
                ELSE IF getUserIdFromCookie(c) = 0
                THEN [fresh EXCEPT !.pc = "done", !.resp = Unauthenticated]
                ELSE [fresh EXCEPT !.pc = "loadUser"]]
    /\ UNCHANGED <<user, logs, issued, calc>>

\* Faulty variant: the test of google_access_token is missing.
LoadUserNoTokenTest(p) ==
    /\ inv[p].pc = "loadUser"
    /\ \E ok \in BOOLEAN :
         LET me == [inv[p] EXCEPT !.calls = Bump(@, "userRead")]
         IN inv' = [inv EXCEPT ![p] =
                IF ~ok \/ ~user.exists
                THEN [me EXCEPT !.pc = "done", !.resp = UserNotFound]
                ELSE [me EXCEPT !.pc = "refresh", !.user = user, !.cred = user.access]]
    /\ UNCHANGED <<user, logs, issued, calc>>

\* supabase.from('users').select('*').eq('id', userId).single() and the two
\* early returns that follow it.
LoadUser(p) ==
    /\ inv[p].pc = "loadUser"
    /\ \E ok \in BOOLEAN :
         LET me == [inv[p] EXCEPT !.calls = Bump(@, "userRead")]
         IN inv' = [inv EXCEPT ![p] =
                IF ~ok \/ ~user.exists
                THEN [me EXCEPT !.pc = "done", !.resp = UserNotFound]
                ELSE IF user.access = 0
                THEN [me EXCEPT !.pc = "done", !.user = user, !.resp = NoGoogleConnection]
                ELSE [me EXCEPT !.pc = "refresh", !.user = user, !.cred = user.access]]
    /\ UNCHANGED <<user, logs, issued, calc>>

\* Faulty variant: the refresh has no try/catch of its own, a raise reaches the
\* outer catch.
RefreshFatal(p) ==
    /\ inv[p].pc = "refresh"
    /\ LET me == [inv[p] EXCEPT !.calls = Bump(@, "refresh")]
       IN \/ /\ \E e \in ErrTexts :
                   inv' = [inv EXCEPT ![p] = Fail([me EXCEPT !.refreshFailed = TRUE], "refresh", e)]
             /\ UNCHANGED issued
          \/ /\ inv[p].user.refresh # 0
             /\ inv' = [inv EXCEPT ![p] = [me EXCEPT !.pc = "fetch"]]
             /\ UNCHANGED issued
          \/ /\ inv[p].user.refresh # 0
             /\ issued' = issued + 1
             /\ inv' = [inv EXCEPT ![p] = [me EXCEPT !.pc = "saveToken", !.cred = issued + 1]]
    /\ UNCHANGED <<user, logs, calc>>

\* oauth2Client.refreshAccessToken() inside its own try/catch.
Refresh(p) ==
    /\ inv[p].pc = "refresh"
    /\ LET me == [inv[p] EXCEPT !.calls = Bump(@, "refresh")]
       IN \/ \* the gateway raises: keep the stored token
             /\ inv' = [inv EXCEPT ![p] = [me EXCEPT !.pc = "fetch", !.refreshFailed = TRUE]]
             /\ UNCHANGED issued
          \/ \* the gateway answers with the token the row already holds
             /\ inv[p].user.refresh # 0
             /\ inv' = [inv EXCEPT ![p] = [me EXCEPT !.pc = "fetch"]]
             /\ UNCHANGED issued
          \/ \* the gateway issues a new access token
             /\ inv[p].user.refresh # 0
             /\ issued' = issued + 1
             /\ inv' = [inv EXCEPT ![p] = [me EXCEPT !.pc = "saveToken", !.cred = issued + 1]]
    /\ UNCHANGED <<user, logs, calc>>

\* Faulty variant: the update writes every credential field, and the refresh
\* answer carries no refresh token.
SaveTokenWritesRefresh(p) ==
    /\ inv[p].pc = "saveToken"
    /\ \E ok \in BOOLEAN :
         /\ user' = IF ok /\ user.exists
                    THEN [user EXCEPT !.access = inv[p].cred, !.expiry = inv[p].cred,
                                      !.refresh = 0]
                    ELSE user
         /\ inv' = [inv EXCEPT ![p] = [@ EXCEPT !.pc = "fetch", !.saved = ok /\ user.exists,
                                                !.calls = Bump(@, "userWrite")]]
    /\ UNCHANGED <<logs, issued, calc>>

\* Faulty variant: the update writes back the token that was read from the row.
SaveTokenWritesLoaded(p) ==
    /\ inv[p].pc = "saveToken"
    /\ \E ok \in BOOLEAN :
         /\ user' = IF ok /\ user.exists
                    THEN [user EXCEPT !.access = inv[p].user.access, !.expiry = inv[p].user.expiry]
                    ELSE user
         /\ inv' = [inv EXCEPT ![p] = [@ EXCEPT !.pc = "fetch", !.saved = ok /\ user.exists,
                                                !.calls = Bump(@, "userWrite")]]
    /\ UNCHANGED <<logs, issued, calc>>

\* supabase.from('users').update({google_access_token, google_token_expiry})
SaveToken(p) ==
    /\ inv[p].pc = "saveToken"
    /\ \E ok \in BOOLEAN :
         /\ user' = IF ok /\ user.exists
                    THEN [user EXCEPT !.access = inv[p].cred, !.expiry = inv[p].cred]
                    ELSE user
         /\ inv' = [inv EXCEPT ![p] = [@ EXCEPT !.pc = "fetch", !.saved = ok /\ user.exists,
                                                !.calls = Bump(@, "userWrite")]]
    /\ UNCHANGED <<logs, issued, calc>>

\* ------------------------------------------------------------ gateway answers
Pending == [st |-> "pending", n |-> 0]
Raised == [st |-> "raise", n |-> 0]
Got(n) == [st |-> "ok", n |-> n]

\* The full range of answers, and the short range used for two invocations.
AllReturns == {Raised, Got(0), Got(MaxItems)}
ShortReturns == {Got(MaxItems)}
AllEventLists == SeqsUpTo(EventKinds, MaxEvents)
ShortEventLists == {<<>>, <<"meeting">>}
AllSizes == 0..MaxItems
ShortSizes == {MaxItems}

ClassEntries == [index : 0..(MaxItems + 1), category : Categories \cup {"other"}]
Unparsable == [parses |-> FALSE, arr |-> <<>>]
AllModelOutputs ==
    {Unparsable} \cup {[parses |-> TRUE, arr |-> a] : a \in SeqsUpTo(ClassEntries, MaxItems + 1)}
ShortModelOutputs == {Unparsable}

\* Faulty variant: the helper has no try/catch, a raise rejects its promise.
SettleUncaught(r) == [rejected |-> r.st = "raise", n |-> IF r.st = "ok" THEN r.n ELSE 0]

\* What a fetch helper's promise settles to: its own try/catch turns a raise
\* into an empty list, so the promise never rejects.
Settle(r) == [rejected |-> FALSE, n |-> IF r.st = "ok" THEN r.n ELSE 0]

BranchesOf(f) ==
    CASE f = "brief" -> {"emails", "documents", "previous_meetings"}
      [] f = "priorities" -> {"calendar", "emails", "tasks"}
      [] f = "inbox" -> {}

AllPending(f) == [b \in BranchesOf(f) |-> Pending]

Joined(me) == me.gw # <<>> /\ \A b \in DOMAIN me.gw : me.gw[b] # Pending

\* Promise.all rejects as soon as one arm rejects.
JoinRejects(me) == \E b \in DOMAIN me.gw : Settle(me.gw[b]).rejected

Context(gw) == [b \in DOMAIN gw |-> Settle(gw[b]).n]

\* allEvents.filter(e => e.attendees && e.attendees.length > 0 && e.status !== 'cancelled')
RECURSIVE QualifyingFrom(_, _)
QualifyingFrom(events, i) ==
    IF i > Len(events) THEN <<>>
    ELSE IF events[i] = "meeting" THEN <<i>> \o QualifyingFrom(events, i + 1)
         ELSE QualifyingFrom(events, i + 1)

\* Faulty variant: the filter forgets the status test, cancelled events pass.
RECURSIVE KeepCancelledFrom(_, _)
KeepCancelledFrom(events, i) ==
    IF i > Len(events) THEN <<>>
    ELSE IF events[i] \in {"meeting", "cancelled"} THEN <<i>> \o KeepCancelledFrom(events, i + 1)
         ELSE KeepCancelledFrom(events, i + 1)

QualifyingKeepsCancelled(events) == KeepCancelledFrom(events, 1)

Qualifying(events) == QualifyingFrom(events, 1)

LogEntry(count, status, note) ==
    [user_id |-> 1, meeting_count |-> count, status |-> status, note |-> note]

\* supabase.from('briefing_logs').insert(...): the client resolves with
\* {error} instead of rejecting, and no handler reads that error.
InsertLog(entry, ok) == IF ok /\ user.exists THEN Append(logs, entry) ELSE logs

\* ------------------------------------------------------------ generate-brief
\* calendar.events.list for today, the filter and the no-meetings test.
FetchTodayEvents(p, lists) ==
    /\ inv[p].pc = "fetch"
    /\ inv[p].feature = "brief"
    /\ LET me == [inv[p] EXCEPT !.calls = Bump(@, "fetch")]
       IN \/ \E e \in ErrTexts : inv' = [inv EXCEPT ![p] = Fail(me, "fetch", e)]
          \/ \E events \in lists :
               inv' = [inv EXCEPT ![p] =
                   [me EXCEPT !.events = events,
                              !.meetings = Qualifying(events),
                              !.pc = IF Qualifying(events) = <<>> THEN "logNone" ELSE "meeting"]]
    /\ UNCHANGED <<user, logs, issued, calc>>

NoMeetingsEntry == LogEntry(0, "success", "No meetings with attendees found today")

\* The no-meetings branch: one success entry with a note, then the 200 answer.
LogNoMeetings(p) ==
    /\ inv[p].pc = "logNone"
    /\ \E ok \in BOOLEAN : logs' = InsertLog(NoMeetingsEntry, ok)
    /\ inv' = [inv EXCEPT ![p] =
           [@ EXCEPT !.pc = "done", !.logged = Append(@, NoMeetingsEntry),
                     !.resp = Resp(200, TRUE, <<>>, 0,
                                   "No meetings with attendees found today. No brief needed!")]]
    /\ UNCHANGED <<user, issued, calc>>

\* processMeeting up to Promise.all: the three searches are started.
BeginMeeting(p) ==
    /\ inv[p].pc = "meeting"
    /\ inv' = [inv EXCEPT ![p] = [@ EXCEPT !.pc = "fanout", !.gw = AllPending("brief")]]
    /\ UNCHANGED <<user, logs, issued, calc>>

\* One arm of a Promise.all settles: its gateway call returned or raised.
BranchReturn(p, returns) ==
    /\ inv[p].pc = "fanout"
    /\ \E b \in DOMAIN inv[p].gw, r \in returns :
         /\ inv[p].gw[b] = Pending
         /\ inv' = [inv EXCEPT ![p] =
                [@ EXCEPT !.gw = [@ EXCEPT ![b] = r], !.calls = Bump(@, "fetch")]]
    /\ UNCHANGED <<user, logs, issued, calc>>

AiBrief(me) ==
    [id |-> me.meetings[Len(me.briefs) + 1], kind |-> "ai", note |-> "none",
     context |-> Context(me.gw)]

\* catch (meetingErr) in the handler's loop.
PlaceholderBrief(me, e) ==
    [id |-> me.meetings[Len(me.briefs) + 1], kind |-> "placeholder", note |-> e,
     context |-> [b \in BranchesOf("brief") |-> 0]]

\* Faulty variant: the loop stops after the first meeting.
AfterBriefSendsEarly(me, brief) ==
    [me EXCEPT !.briefs = Append(@, brief), !.pc = "send"]

AfterBrief(me, brief) ==
    [me EXCEPT !.briefs = Append(@, brief),
               !.pc = IF Len(me.briefs) + 1 < Len(me.meetings) THEN "meeting" ELSE "send"]

\* Faulty variant: the loop has no try/catch, a failed meeting ends the run.
GenerateBriefAborts(p) ==
    /\ inv[p].pc = "fanout"
    /\ inv[p].feature = "brief"
    /\ Joined(inv[p])
    /\ LET me == [inv[p] EXCEPT !.calls = Bump(@, "ai")]
       IN \/ inv' = [inv EXCEPT ![p] = AfterBrief(me, AiBrief(me))]
          \/ \E e \in ErrTexts : inv' = [inv EXCEPT ![p] = Fail(me, "ai", e)]
    /\ UNCHANGED <<user, logs, issued, calc>>

\* The join of processMeeting, generateAiBrief and the push of the brief.
GenerateBrief(p) ==
    /\ inv[p].pc = "fanout"
    /\ inv[p].feature = "brief"
    /\ Joined(inv[p])
    /\ IF JoinRejects(inv[p])
       THEN \E e \in ErrTexts :
               inv' = [inv EXCEPT ![p] = AfterBrief(inv[p], PlaceholderBrief(inv[p], e))]
       ELSE LET me == [inv[p] EXCEPT !.calls = Bump(@, "ai")]
            IN \/ inv' = [inv EXCEPT ![p] = AfterBrief(me, AiBrief(me))]
               \/ \E e \in ErrTexts :
                    inv' = [inv EXCEPT ![p] = AfterBrief(me, PlaceholderBrief(me, e))]
    /\ UNCHANGED <<user, logs, issued, calc>>

\* ------------------------------------------------------------ generate-priorities
\* Promise.all([fetchCalendarEvents, fetchPriorityEmails, fetchGoogleTasks]) starts.
BeginSources(p) ==
    /\ inv[p].pc = "fetch"
    /\ inv[p].feature = "priorities"
    /\ inv' = [inv EXCEPT ![p] = [@ EXCEPT !.pc = "fanout", !.gw = AllPending("priorities")]]
    /\ UNCHANGED <<user, logs, issued, calc>>

\* The join, the three process* calls and buildAIContext, then generateAIPriorities.
GeneratePriorities(p) ==
    /\ inv[p].pc = "fanout"
    /\ inv[p].feature = "priorities"
    /\ Joined(inv[p])
    /\ IF JoinRejects(inv[p])
       THEN \E e \in ErrTexts : inv' = [inv EXCEPT ![p] = Fail(inv[p], "fetch", e)]
       ELSE LET me == [inv[p] EXCEPT !.calls = Bump(@, "ai"), !.sources = Context(inv[p].gw)]
            IN \/ inv' = [inv EXCEPT ![p] = [me EXCEPT !.pc = "send"]]
               \/ \E e \in ErrTexts : inv' = [inv EXCEPT ![p] = Fail(me, "ai", e)]
    /\ UNCHANGED <<user, logs, issued, calc>>

\* ------------------------------------------------------------ inbox-summary
\* gmail.users.messages.list and the empty-inbox answer.
ListMessages(p, sizes) ==
    /\ inv[p].pc = "fetch"
    /\ inv[p].feature = "inbox"
    /\ LET me == [inv[p] EXCEPT !.calls = Bump(@, "fetch")]
       IN \/ \E e \in ErrTexts : inv' = [inv EXCEPT ![p] = Fail(me, "fetch", e)]
          \/ \E n \in sizes :
               inv' = [inv EXCEPT ![p] =
                   IF n = 0
                   THEN [me EXCEPT !.pc = "done",
                            !.resp = Resp(200, TRUE, <<>>, 0,
                                "No important emails in the last 24 hours. Inbox Zero!")]
                   ELSE [me EXCEPT !.pc = "hydrate", !.listed = n]]
    /\ UNCHANGED <<user, logs, issued, calc>>

\* Faulty variant: a get that raises is not caught inside the loop.
HydrateMessagesUncaught(p) ==
    /\ inv[p].pc = "hydrate"
    /\ \E k \in 0..inv[p].listed :
         LET me == [inv[p] EXCEPT !.calls = [@ EXCEPT !.fetch = @ + inv[p].listed],
                                  !.emails = k]
         IN IF k < inv[p].listed
            THEN \E e \in ErrTexts : inv' = [inv EXCEPT ![p] = Fail(me, "fetch", e)]
            ELSE inv' = [inv EXCEPT ![p] = [me EXCEPT !.pc = "classify"]]
    /\ UNCHANGED <<user, logs, issued, calc>>

\* The loop of gmail.users.messages.get, each get in its own try/catch:
\* k of the listed messages are retrieved.
HydrateMessages(p) ==
    /\ inv[p].pc = "hydrate"
    /\ \E k \in 0..inv[p].listed :
         LET me == [inv[p] EXCEPT !.calls = [@ EXCEPT !.fetch = @ + inv[p].listed],
                                  !.emails = k]
         IN inv' = [inv EXCEPT ![p] =
                IF k = 0
                THEN [me EXCEPT !.pc = "done",
                         !.resp = Resp(200, TRUE, <<>>, 0, "Could not retrieve email details.")]
                ELSE [me EXCEPT !.pc = "classify"]]
    /\ UNCHANGED <<user, logs, issued, calc>>

\* Faulty variant: the catch leaves the classification list empty.
FallbackEmpty(n) == <<>>

\* catch (parseErr): every email as highPriority.
Fallback(n) == [i \in 1..n |-> [index |-> i, category |-> "highPriority"]]

Classifications(out, n) == IF out.parses THEN out.arr ELSE Fallback(n)

\* The categorize loop: one item per entry whose index is in range.
RECURSIVE Categorize(_, _)
Categorize(cls, n) ==
    IF cls = <<>> THEN [c \in Categories |-> <<>>]
    ELSE LET rest == Categorize(Tail(cls), n)
             c == Head(cls)
             cat == IF c.category \in Categories THEN c.category ELSE "highPriority"
         IN IF c.index - 1 >= 0 /\ c.index - 1 < n
            THEN [rest EXCEPT ![cat] = <<c.index>> \o @]
            ELSE rest

RECURSIVE SumLens(_, _)
SumLens(cats, S) ==
    IF S = {} THEN 0
    ELSE LET c == CHOOSE x \in S : TRUE IN Len(cats[c]) + SumLens(cats, S \ {c})

\* Object.values(categories).reduce((sum, arr) => sum + arr.length, 0)
TotalCategorized(cats) == SumLens(cats, Categories)

\* openai.chat.completions.create, the parse and the categorize loop.
ClassifyEmails(p, outputs) ==
    /\ inv[p].pc = "classify"
    /\ LET me == [inv[p] EXCEPT !.calls = Bump(@, "ai")]
       IN \/ \E e \in ErrTexts : inv' = [inv EXCEPT ![p] = Fail(me, "ai", e)]
          \/ \E out \in outputs :
               inv' = [inv EXCEPT ![p] =
                   LET categories == Categorize(Classifications(out, me.emails), me.emails)
                   IN [me EXCEPT !.pc = "send",
                                 !.classified = <<out>>,
                                 !.categories = categories,
                                 !.categorized = TotalCategorized(categories)]]
    /\ UNCHANGED <<user, logs, issued, calc>>

\* ------------------------------------------------------------ steps 7-8
MeetingCount(me) ==
    CASE me.feature = "brief" -> Len(me.meetings)
      [] me.feature = "priorities" -> me.sources["calendar"]
      [] me.feature = "inbox" -> 0

SuccessNote(f) == IF f = "priorities" THEN "Priority alignment generated" ELSE "none"

SuccessEntry(me) == LogEntry(MeetingCount(me), "success", SuccessNote(me.feature))

\* error_message: err.message cut to 500 characters
FailureEntry(me) == LogEntry(0, "failed", me.err)

SentResponse(me) ==
    Resp(200, TRUE, <<>>, MeetingCount(me),
         CASE me.feature = "brief" -> "Brief sent!"
           [] me.feature = "priorities" -> "Priority report generated and sent to your email!"
           [] me.feature = "inbox" -> "Inbox summary sent to your email!")

\* Faulty variant: a send that raises is noted and the run goes on to log success.
SendMailSwallows(p) ==
    /\ inv[p].pc = "send"
    /\ LET me == [inv[p] EXCEPT !.calls = Bump(@, "send"), !.composed = inv[p].briefs,
                                !.gw = <<>>]
       IN \/ \E e \in ErrTexts :
               inv' = [inv EXCEPT ![p] =
                   [me EXCEPT !.pc = "logSuccess", !.err = e, !.failedAt = "send"]]
          \/ inv' = [inv EXCEPT ![p] =
                 IF me.feature = "inbox"
                 THEN [me EXCEPT !.pc = "done", !.sent = TRUE, !.resp = SentResponse(me)]
                 ELSE [me EXCEPT !.pc = "logSuccess", !.sent = TRUE]]
    /\ UNCHANGED <<user, logs, issued, calc>>

\* Compose the document (synchronous) and gmail.users.messages.send.
SendMail(p) ==
    /\ inv[p].pc = "send"
    /\ LET me == [inv[p] EXCEPT !.calls = Bump(@, "send"), !.composed = inv[p].briefs]
       IN \/ \E e \in ErrTexts : inv' = [inv EXCEPT ![p] = Fail(me, "send", e)]
          \/ inv' = [inv EXCEPT ![p] =
                 IF me.feature = "inbox"
                 THEN [me EXCEPT !.pc = "done", !.sent = TRUE, !.gw = <<>>,
                                 !.resp = SentResponse(me)]
                 ELSE [me EXCEPT !.pc = "logSuccess", !.sent = TRUE, !.gw = <<>>]]
    /\ UNCHANGED <<user, logs, issued, calc>>

\* Faulty variant: an insert the store refuses is thrown into the outer catch.
LogSuccessRethrows(p) ==
    /\ inv[p].pc = "logSuccess"
    /\ \E ok \in BOOLEAN :
         /\ logs' = InsertLog(SuccessEntry(inv[p]), ok)
         /\ inv' = [inv EXCEPT ![p] =
                IF ok
                THEN [@ EXCEPT !.pc = "done", !.logged = Append(@, SuccessEntry(inv[p])),
                               !.resp = SentResponse(inv[p])]
                ELSE Fail(inv[p], "log", "e1")]
    /\ UNCHANGED <<user, issued, calc>>

\* The success entry and the 200 answer of generate-brief and generate-priorities.
LogSuccess(p) ==
    /\ inv[p].pc = "logSuccess"
    /\ \E ok \in BOOLEAN : logs' = InsertLog(SuccessEntry(inv[p]), ok)
    /\ inv' = [inv EXCEPT ![p] =
           [@ EXCEPT !.pc = "done", !.logged = Append(@, SuccessEntry(inv[p])),
                     !.resp = SentResponse(inv[p])]]
    /\ UNCHANGED <<user, issued, calc>>

\* The failure entry and the 500 answer.
LogFailure(p) ==
    /\ inv[p].pc = "logFail"
    /\ \E ok \in BOOLEAN : logs' = InsertLog(FailureEntry(inv[p]), ok)
    /\ inv' = [inv EXCEPT ![p] =
           [@ EXCEPT !.pc = "done", !.logged = Append(@, FailureEntry(inv[p])),
                     !.resp = FailureResponse(inv[p].feature, inv[p].err)]]
    /\ UNCHANGED <<user, issued, calc>>

\* ------------------------------------------------------------ specifications
\* One invocation (slot 1), every gateway answer in range.
Next ==
    \/ Start(1)
    \/ LoadUser(1)
    \/ Refresh(1)
    \/ SaveToken(1)
    \/ FetchTodayEvents(1, AllEventLists)
    \/ LogNoMeetings(1)
    \/ BeginMeeting(1)
    \/ BranchReturn(1, AllReturns)
    \/ GenerateBrief(1)
    \/ BeginSources(1)
    \/ GeneratePriorities(1)
    \/ ListMessages(1, AllSizes)
    \/ HydrateMessages(1)
    \/ ClassifyEmails(1, AllModelOutputs)
    \/ SendMail(1)
    \/ LogSuccess(1)
    \/ LogFailure(1)

Spec == Init /\ [][Next]_vars

\* Two invocations for the same user, interleaved at every await.
PairNext ==
    \E p \in Procs :
        \/ Start(p)
        \/ LoadUser(p)
        \/ Refresh(p)
        \/ SaveToken(p)
        \/ FetchTodayEvents(p, ShortEventLists)
        \/ LogNoMeetings(p)
        \/ BeginMeeting(p)
        \/ BranchReturn(p, ShortReturns)
        \/ GenerateBrief(p)
        \/ BeginSources(p)
        \/ GeneratePriorities(p)
        \/ ListMessages(p, ShortSizes)
        \/ HydrateMessages(p)
        \/ ClassifyEmails(p, ShortModelOutputs)
        \/ SendMail(p)
        \/ LogSuccess(p)
        \/ LogFailure(p)

PairInit ==
    /\ user = ConnectedUser(1)
    /\ logs = <<>>
    /\ issued = 1
    /\ inv = [p \in Procs |-> Idle]
    /\ calc = NoCalc

PairSpec == PairInit /\ [][PairNext]_vars

\* ------------------------------------------------------------ account operations
\* The handlers beside the orchestrators.  Each answers at once; calc keeps
\* the answer: its status code, the user object of its body (the columns it
\* carries) and the log rows of its body.
Columns == {"access", "refresh", "expiry", "calendar_id", "goals", "name", "email"}
TokenColumns == {"access", "refresh"}

\* .select(cols) on the users row
Select(cols, row) == [c \in cols |-> row[c]]

\* delete obj[col]
Delete(obj, cols) == [c \in DOMAIN obj \ cols |-> obj[c]]

Answer(code, userObj, rows) == [code |-> code, user |-> userObj, logs |-> rows]
NoObject == <<>>

Answered(op, c, answer) == [op |-> op, arg |-> c, out |-> answer, done |-> TRUE]

\* auth-session as deployed (part_003): the access token is selected to derive
\* google_connected and deleted from the object before it is returned.
AuthSessionColumns == {"email", "name", "calendar_id", "goals", "access"}

AuthSession ==
    /\ \E c \in Cookies, ok \in BOOLEAN :
         calc' = Answered("authSession", c,
                    IF getUserIdFromCookie(c) = 0 \/ ~ok \/ ~user.exists
                    THEN Answer(200, NoObject, <<>>)
                    ELSE Answer(200, Delete(Select(AuthSessionColumns, user), {"access"}), <<>>))
    /\ UNCHANGED <<user, logs, issued, inv>>

\* auth-session, the earlier file: no token column is selected.
AuthSessionEarlier ==
    /\ \E c \in Cookies, ok \in BOOLEAN :
         calc' = Answered("authSessionEarlier", c,
                    IF getUserIdFromCookie(c) = 0 \/ ~ok \/ ~user.exists
                    THEN Answer(200, NoObject, <<>>)
                    ELSE Answer(200, Select({"email", "name", "calendar_id"}, user), <<>>))
    /\ UNCHANGED <<user, logs, issued, inv>>

\* Faulty variant: only the access token is removed.
RedactAccessOnly(row) == Delete(row, {"access"})

\* user-profile GET: "Remove sensitive fields"
Redact(row) == Delete(row, {"access", "refresh", "expiry"})

GetProfile ==
    /\ \E c \in Cookies, ok \in BOOLEAN :
         calc' = Answered("profileGet", c,
                    IF getUserIdFromCookie(c) = 0 THEN Answer(401, NoObject, <<>>)
                    ELSE IF ~ok \/ ~user.exists THEN Answer(500, NoObject, <<>>)
                    ELSE Answer(200, Redact(Select(Columns, user)), <<>>))
    /\ UNCHANGED <<user, logs, issued, inv>>

GoalsValues == {"", "[]"}
AllowedFields == {"name", "calendar_id", "goals"}

\* user-profile PUT: the allowed fields of the body are written to the row.
PutProfile ==
    /\ \E c \in Cookies, ok \in BOOLEAN, field \in {"goals", "access"}, g \in GoalsValues :
         IF getUserIdFromCookie(c) = 0
         THEN calc' = Answered("profilePut", c, Answer(401, NoObject, <<>>)) /\ UNCHANGED user
         ELSE IF ~ok
         THEN calc' = Answered("profilePut", c, Answer(500, NoObject, <<>>)) /\ UNCHANGED user
         ELSE /\ calc' = Answered("profilePut", c, Answer(200, NoObject, <<>>))
              /\ user' = IF user.exists /\ field \in AllowedFields
                         THEN [user EXCEPT !.goals = g] ELSE user
    /\ UNCHANGED <<logs, issued, inv>>

\* briefing-history, google-disconnect, user-disconnect: no cookie is answered
\* 401; a cookie that does not verify throws inside the try and is answered 500.
SessionCode(c) == IF c = "none" THEN 401 ELSE 500

\* briefing-history: the rows of briefing_logs of the user.
History ==
    /\ \E c \in Cookies, ok \in BOOLEAN :
         calc' = Answered("history", c,
                    IF getUserIdFromCookie(c) = 0 THEN Answer(SessionCode(c), NoObject, <<>>)
                    ELSE IF ~ok THEN Answer(500, NoObject, <<>>)
                    ELSE Answer(200, NoObject, logs))
    /\ UNCHANGED <<user, logs, issued, inv>>

\* Faulty variant: the disconnect also clears the user's log rows.
DisconnectGoogleClearsLogs ==
    /\ \E c \in Cookies, ok \in BOOLEAN :
         IF getUserIdFromCookie(c) = 0
         THEN calc' = Answered("googleDisconnect", c, Answer(SessionCode(c), NoObject, <<>>))
                 /\ UNCHANGED <<user, logs>>
         ELSE /\ calc' = Answered("googleDisconnect", c, Answer(200, NoObject, <<>>))
              /\ user' = IF ok /\ user.exists
                         THEN [user EXCEPT !.access = 0, !.refresh = 0, !.expiry = 0]
                         ELSE user
              /\ logs' = IF ok THEN <<>> ELSE logs
    /\ UNCHANGED <<issued, inv>>

\* Faulty variant: the update clears the refresh token and the expiry only.
DisconnectGoogleKeepsAccess ==
    /\ \E c \in Cookies, ok \in BOOLEAN :
         IF getUserIdFromCookie(c) = 0
         THEN calc' = Answered("googleDisconnect", c, Answer(SessionCode(c), NoObject, <<>>))
                 /\ UNCHANGED user
         ELSE /\ calc' = Answered("googleDisconnect", c, Answer(200, NoObject, <<>>))
              /\ user' = IF ok /\ user.exists
                         THEN [user EXCEPT !.refresh = 0, !.expiry = 0]
                         ELSE user
    /\ UNCHANGED <<logs, issued, inv>>

\* google-disconnect: revoke (failure ignored), then clear the Google columns.
DisconnectGoogle ==
    /\ \E c \in Cookies, ok \in BOOLEAN :
         IF getUserIdFromCookie(c) = 0
         THEN calc' = Answered("googleDisconnect", c, Answer(SessionCode(c), NoObject, <<>>))
                 /\ UNCHANGED user
         ELSE /\ calc' = Answered("googleDisconnect", c, Answer(200, NoObject, <<>>))
              /\ user' = IF ok /\ user.exists
                         THEN [user EXCEPT !.access = 0, !.refresh = 0, !.expiry = 0]
                         ELSE user
    /\ UNCHANGED <<logs, issued, inv>>

\* user-disconnect: "Delete user (cascades to briefing_logs)"; the error of a
\* refused delete is not read.
DeleteAccount ==
    /\ \E c \in Cookies, ok \in BOOLEAN :
         IF getUserIdFromCookie(c) = 0
         THEN calc' = Answered("userDisconnect", c, Answer(SessionCode(c), NoObject, <<>>))
                 /\ UNCHANGED <<user, logs>>
         ELSE /\ calc' = Answered("userDisconnect", c, Answer(200, NoObject, <<>>))
              /\ user' = IF ok THEN NoUser ELSE user
              /\ logs' = IF ok THEN <<>> ELSE logs
    /\ UNCHANGED <<issued, inv>>

\* One orchestrator run in slot 1 beside the account operations.
AccountNext ==
    \/ Start(1)
    \/ LoadUser(1)
    \/ Refresh(1)
    \/ SaveToken(1)
    \/ FetchTodayEvents(1, ShortEventLists)
    \/ LogNoMeetings(1)
    \/ BeginMeeting(1)
    \/ BranchReturn(1, ShortReturns)
    \/ GenerateBrief(1)
    \/ BeginSources(1)
    \/ GeneratePriorities(1)
    \/ ListMessages(1, ShortSizes)
    \/ HydrateMessages(1)
    \/ ClassifyEmails(1, ShortModelOutputs)
    \/ SendMail(1)
    \/ LogSuccess(1)
    \/ LogFailure(1)
    \/ AuthSession
    \/ AuthSessionEarlier
    \/ GetProfile
    \/ PutProfile
    \/ History
    \/ DisconnectGoogle
    \/ DeleteAccount

AccountInit ==
    /\ user \in {ConnectedUser(1), DisconnectedUser}
    /\ logs = <<>>
    /\ issued = 1
    /\ inv = [p \in Procs |-> Idle]
    /\ calc = NoCalc

AccountSpec == AccountInit /\ [][AccountNext]_vars

\* ------------------------------------------------------------ OAuth callbacks
MaxIssued == 3      \* access tokens Google issues in one behaviour

\* the code parameter: absent, refused by the token endpoint, accepted
Codes == {"none", "bad", "good"}
\* the state parameter: absent, not signed with the secret, expired, valid
States == {"none", "forged", "expired", "good"}

\* jwt.verify(state, jwtSecret).userId, 0 when verify throws
verifyState(state) == IF state = "good" THEN 1 ELSE 0

Redirect(location, cookie) == [code |-> 302, location |-> location, cookie |-> cookie]

\* what the callback was called with and what the token exchange granted
Request(code, state, refreshGranted) ==
    [code |-> code, state |-> state, refresh_token |-> refreshGranted]

Redirected(op, request, location, cookie) ==
    [op |-> op, arg |-> request, out |-> Redirect(location, cookie), done |-> TRUE]

\* auth-callback of the connect flow: verify the signed state, exchange the
\* code, read the profile, update the Google columns of the user's row.
AuthCallback(codes, states) ==
    \E code \in codes, state \in states, rt, profileOk, ok \in BOOLEAN :
        LET request == Request(code, state, rt)
            stay(location) ==
                /\ calc' = Redirected("authCallback", request, location, "none")
                /\ UNCHANGED <<user, issued>>
        IN /\ IF code = "none" \/ state = "none" THEN stay("/?auth=error&reason=missing_params")
              ELSE IF verifyState(state) = 0 THEN stay("/?auth=error&reason=invalid_state")
              ELSE IF code = "bad" THEN stay("/?auth=error&reason=")
              ELSE /\ issued < MaxIssued
                   /\ issued' = issued + 1
                   /\ IF ~profileOk \/ ~ok
                      THEN /\ calc' = Redirected("authCallback", request, "/?auth=error&reason=", "none")
                           /\ UNCHANGED user
                      ELSE /\ calc' = Redirected("authCallback", request, "/?google=connected", "none")
                           /\ user' = IF user.exists
                                      THEN [user EXCEPT !.access = issued + 1,
                                                        !.expiry = issued + 1,
                                                        !.refresh = IF rt THEN issued + 1 ELSE @]
                                      ELSE user
           /\ UNCHANGED <<logs, inv>>

\* the row the sign-in flow inserts for a profile it has no user for
NewUser(access, refresh) ==
    [exists |-> TRUE, access |-> access, refresh |-> refresh, expiry |-> access,
     calendar_id |-> "primary", goals |-> "", name |-> "Ada", email |-> "ada@example.com"]

\* Faulty variant: the update always takes the refresh token of the exchange.
SignInCallbackDropsRefresh ==
    \E code \in Codes, rt, profileOk, found, ok \in BOOLEAN :
        LET request == Request(code, "none", rt)
            stay(location) ==
                /\ calc' = Redirected("signInCallback", request, location, "none")
                /\ UNCHANGED <<user, issued>>
        IN /\ IF code = "none" THEN stay("/?auth=error&reason=no_code")
              ELSE IF code = "bad" THEN stay("/?auth=error&reason=")
              ELSE /\ issued < MaxIssued
                   /\ issued' = issued + 1
                   /\ LET refresh_token == IF rt THEN issued + 1 ELSE 0
                          existingUser == found /\ user.exists
                      IN IF ~profileOk \/ ~ok \/ (user.exists /\ ~found)
                         THEN /\ calc' = Redirected("signInCallback", request, "/?auth=error&reason=", "none")
                              /\ UNCHANGED user
                         ELSE /\ calc' = Redirected("signInCallback", request, "/?auth=success", "good")
                              /\ user' = IF existingUser
                                         THEN [user EXCEPT
                                                 !.email = "ada@example.com", !.name = "Ada",
                                                 !.access = issued + 1, !.expiry = issued + 1,
                                                 !.refresh = refresh_token]
                                         ELSE NewUser(issued + 1, refresh_token)
           /\ UNCHANGED <<logs, inv>>

\* auth-callback of the sign-in flow: exchange the code, read the profile,
\* update the user with that email or insert one, set the session cookie.
\* A select that fails for an existing user leads to an insert the store
\* refuses, which leaves the row as it is.
SignInCallback ==
    \E code \in Codes, rt, profileOk, found, ok \in BOOLEAN :
        LET request == Request(code, "none", rt)
            stay(location) ==
                /\ calc' = Redirected("signInCallback", request, location, "none")
                /\ UNCHANGED <<user, issued>>
        IN /\ IF code = "none" THEN stay("/?auth=error&reason=no_code")
              ELSE IF code = "bad" THEN stay("/?auth=error&reason=")
              ELSE /\ issued < MaxIssued
                   /\ issued' = issued + 1
                   /\ LET refresh_token == IF rt THEN issued + 1 ELSE 0
                          existingUser == found /\ user.exists
                      IN IF ~profileOk \/ ~ok \/ (user.exists /\ ~found)
                         THEN /\ calc' = Redirected("signInCallback", request, "/?auth=error&reason=", "none")
                              /\ UNCHANGED user
                         ELSE /\ calc' = Redirected("signInCallback", request, "/?auth=success", "good")
                              /\ user' = IF existingUser
                                         THEN [user EXCEPT
                                                 !.email = "ada@example.com", !.name = "Ada",
                                                 !.access = issued + 1, !.expiry = issued + 1,
                                                 !.refresh = IF refresh_token = 0 /\ user.refresh # 0
                                                             THEN user.refresh
                                                             ELSE refresh_token]
                                         ELSE NewUser(issued + 1, refresh_token)
           /\ UNCHANGED <<logs, inv>>

\* One orchestrator run beside google-disconnect and the connect callback.
ConnectNext ==
    \/ Start(1)
    \/ LoadUser(1)
    \/ Refresh(1)
    \/ SaveToken(1)
    \/ FetchTodayEvents(1, ShortEventLists)
    \/ LogNoMeetings(1)
    \/ BeginMeeting(1)
    \/ BranchReturn(1, ShortReturns)
    \/ GenerateBrief(1)
    \/ BeginSources(1)
    \/ GeneratePriorities(1)
    \/ ListMessages(1, ShortSizes)
    \/ HydrateMessages(1)
    \/ ClassifyEmails(1, ShortModelOutputs)
    \/ SendMail(1)
    \/ LogSuccess(1)
    \/ LogFailure(1)
    \/ DisconnectGoogle
    \/ AuthCallback({"good"}, {"expired", "good"})

\* a user who signed up and connected Google
ConnectInit ==
    /\ user = ConnectedUser(1)
    /\ logs = <<>>
    /\ issued = 1
    /\ inv = [p \in Procs |-> Idle]
    /\ calc = NoCalc

ConnectSpec == ConnectInit /\ [][ConnectNext]_vars

\* The two callbacks and google-disconnect, no run in flight.
CallbackInit ==
    /\ user \in {ConnectedUser(1), DisconnectedUser, NoUser}
    /\ logs = <<>>
    /\ issued = 1
    /\ inv = [p \in Procs |-> Idle]
    /\ calc = NoCalc

CallbackNext ==
    \/ AuthCallback(Codes, States)
    \/ SignInCallback
    \/ DisconnectGoogle

CallbackSpec == CallbackInit /\ [][CallbackNext]_vars

\* ------------------------------------------------------------ pure helpers
\* Hours are counted in tenths, the precision the code rounds to.
WorkdayHours == 8

DurationMinutes == {0, 30, 45, 240, 480, 540}
DayOffsets == {0, 1, 2}     \* start of the event: today, tomorrow, later
CalendarEvents == [mins : DurationMinutes, day : DayOffsets]

Max(a, b) == IF a >= b THEN a ELSE b

\* JavaScript's x || d on a number: 0 is falsy.
OrElse(x, d) == IF x = 0 THEN d ELSE x

\* Math.round(durationHours * 10) / 10, in tenths of an hour
RoundedTenths(mins) == (mins + 3) \div 6

TimeCategory(day) ==
    CASE day = 0 -> "today"
      [] day = 1 -> "tomorrow"
      [] OTHER -> "later"

ProcessedEvent(e) == [timeCategory |-> TimeCategory(e.day), durationHours |-> RoundedTenths(e.mins)]

RECURSIVE SumDurations(_)
SumDurations(es) == IF es = <<>> THEN 0 ELSE Head(es).durationHours + SumDurations(Tail(es))

\* processCalendarEvents: the processed events, today's events and the summary.
processCalendarEvents(events) ==
    LET processed == [i \in 1..Len(events) |-> ProcessedEvent(events[i])]
        todayEvents == SelectSeq(processed, LAMBDA e : e.timeCategory = "today")
        todayMeetingHours == SumDurations(todayEvents)
    IN [events |-> processed,
        todayEvents |-> todayEvents,
        summary |-> [totalEvents |-> Len(processed),
                     todayCount |-> Len(todayEvents),
                     todayMeetingHours |-> todayMeetingHours,
                     availableHours |-> Max(0, WorkdayHours * 10 - todayMeetingHours)]]

\* buildAIContext: the dayHealth part that is derived from the calendar.
buildAIContext(calendar) ==
    [dayHealth |-> [meetingLoad |-> OrElse(calendar.summary.todayMeetingHours, 0),
                    availableFocusHours |-> OrElse(calendar.summary.availableHours, WorkdayHours * 10)]]

\* -- strategic goals: a string is the sequence of its characters
MaxText == 3        \* characters typed in the goals box / stored as text

TextChars == {"a", "b", " ", "\n"}
Quote == "\""

Str(chars) == [kind |-> "string", text |-> chars, items |-> <<>>]
Arr(items) == [kind |-> "array", text |-> <<>>, items |-> items]
Strs(list) == [i \in 1..Len(list) |-> Str(list[i])]

\* s.split('\n')
RECURSIVE SplitLines(_)
SplitLines(s) ==
    IF s = <<>> THEN << <<>> >>
    ELSE LET rest == SplitLines(Tail(s))
         IN IF Head(s) = "\n" THEN << <<>> >> \o rest
            ELSE << <<Head(s)>> \o Head(rest) >> \o Tail(rest)

RECURSIVE TrimStart(_)
TrimStart(s) == IF s # <<>> /\ Head(s) \in {" ", "\n"} THEN TrimStart(Tail(s)) ELSE s

RECURSIVE TrimEnd(_)
TrimEnd(s) == IF s # <<>> /\ Last(s) \in {" ", "\n"} THEN TrimEnd(SubSeq(s, 1, Len(s) - 1)) ELSE s

Trim(s) == TrimEnd(TrimStart(s))

\* text.split('\n').map(g => g.trim()).filter(g => g.length > 0)
GoalLines(text) ==
    LET lines == SplitLines(text)
    IN SelectSeq([i \in 1..Len(lines) |-> Trim(lines[i])], LAMBDA g : Len(g) > 0)

RECURSIVE JoinItems(_)
JoinItems(goals) ==
    IF goals = <<>> THEN <<>>
    ELSE <<Quote>> \o Head(goals) \o <<Quote>>
             \o (IF Len(goals) > 1 THEN <<",">> \o JoinItems(Tail(goals)) ELSE <<>>)

\* JSON.stringify of an array of strings (none of which needs an escape)
JSONstringify(goals) == <<"[">> \o JoinItems(goals) \o <<"]">>

NoParse == [ok |-> FALSE, val |-> Str(<<>>), next |-> 0]
Parsed(val, next) == [ok |-> TRUE, val |-> val, next |-> next]

RECURSIVE SkipWs(_, _)
SkipWs(s, i) == IF i <= Len(s) /\ s[i] \in {" ", "\n"} THEN SkipWs(s, i + 1) ELSE i

RECURSIVE ParseString(_, _, _)
ParseString(s, i, acc) ==
    IF i > Len(s) \/ s[i] = "\n" THEN NoParse
    ELSE IF s[i] = Quote THEN Parsed(Str(acc), i + 1)
         ELSE ParseString(s, i + 1, Append(acc, s[i]))

RECURSIVE ParseValue(_, _)
RECURSIVE ParseItems(_, _, _)
ParseItems(s, i, acc) ==
    LET v == ParseValue(s, i)
        j == SkipWs(s, v.next)
    IN IF ~v.ok \/ j > Len(s) THEN NoParse
       ELSE IF s[j] = "," THEN ParseItems(s, j + 1, Append(acc, v.val))
       ELSE IF s[j] = "]" THEN Parsed(Arr(Append(acc, v.val)), j + 1)
       ELSE NoParse

ParseValue(s, i) ==
    LET j == SkipWs(s, i)
    IN IF j > Len(s) THEN NoParse
       ELSE IF s[j] = Quote THEN ParseString(s, j + 1, <<>>)
       ELSE IF s[j] = "["
            THEN LET k == SkipWs(s, j + 1)
                 IN IF k <= Len(s) /\ s[k] = "]" THEN Parsed(Arr(<<>>), k + 1)
                    ELSE ParseItems(s, j + 1, <<>>)
       ELSE NoParse

\* JSON.parse restricted to strings and arrays; NoParse is the SyntaxError.
JSONparse(s) ==
    LET v == ParseValue(s, 1)
    IN IF v.ok /\ SkipWs(s, v.next) = Len(s) + 1 THEN v ELSE NoParse

DefaultGoals ==
    Strs(<< <<"Maximize productivity">>, <<"Focus on high-impact work">>, <<"Meet all deadlines">> >>)

\* parseStrategicGoals; the absent value (null) and '' are both <<>>.
parseStrategicGoals(goalsStr) ==
    IF goalsStr = <<>> THEN DefaultGoals
    ELSE LET parsed == JSONparse(goalsStr)
         IN IF parsed.ok /\ parsed.val.kind = "array" THEN parsed.val.items
            ELSE Strs(GoalLines(goalsStr))

\* saveProfile: the value of strategic_goals it sends to PUT /user-profile,
\* which stores it as it is.
saveProfile(goalsRaw) == JSONstringify(GoalLines(goalsRaw))

\* A call of a helper: the argument is drawn, then the helper is applied.
Called(op, arg) == [op |-> op, arg |-> arg, out |-> <<>>, done |-> FALSE]

Returned(out) == [calc EXCEPT !.out = out, !.done = TRUE]

\* -- titles: a title is the sequence of its characters
MaxWords == 2       \* fragments a title or description is put together from

\* c.toLowerCase()
LowerChar(c) ==
      CASE c = "A" -> "a"
        [] c = "B" -> "b"
        [] c = "C" -> "c"
        [] c = "D" -> "d"
        [] c = "E" -> "e"
        [] c = "F" -> "f"
        [] c = "G" -> "g"
        [] c = "H" -> "h"
        [] c = "I" -> "i"
        [] c = "J" -> "j"
        [] c = "K" -> "k"
        [] c = "L" -> "l"
        [] c = "M" -> "m"
        [] c = "N" -> "n"
        [] c = "O" -> "o"
        [] c = "P" -> "p"
        [] c = "Q" -> "q"
        [] c = "R" -> "r"
        [] c = "S" -> "s"
        [] c = "T" -> "t"
        [] c = "U" -> "u"
        [] c = "V" -> "v"
        [] c = "W" -> "w"
        [] c = "X" -> "x"
        [] c = "Y" -> "y"
        [] c = "Z" -> "z"
        [] OTHER -> c

ToLower(s) == [i \in 1..Len(s) |-> LowerChar(s[i])]

\* s.includes(part)
Includes(s, part) ==
    \E i \in 1..(Len(s) - Len(part) + 1) : SubSeq(s, i, i + Len(part) - 1) = part

detectMeetingTypeReviewFirst(subject, external) ==
    LET s == ToLower(subject)
    IN IF Includes(s, <<"r", "e", "v", "i", "e", "w">>) THEN "review"
       ELSE IF Includes(s, <<"i", "n", "t", "e", "r", "v", "i", "e", "w">>) THEN "interview"
       ELSE IF Includes(s, <<"s", "t", "a", "n", "d", "u", "p">>) \/ Includes(s, <<"s", "t", "a", "n", "d", "-", "u", "p">>) THEN "standup"
       ELSE IF external # <<>> THEN "external"
       ELSE "general"

detectMeetingType(subject, external) ==
    LET s == ToLower(subject)
    IN IF Includes(s, <<"i", "n", "t", "e", "r", "v", "i", "e", "w">>) THEN "interview"
       ELSE IF Includes(s, <<"s", "t", "a", "n", "d", "u", "p">>)
                \/ Includes(s, <<"s", "t", "a", "n", "d", "-", "u", "p">>) THEN "standup"
       ELSE IF Includes(s, <<"1", ":", "1">>)
                \/ Includes(s, <<"o", "n", "e", " ", "o", "n", " ", "o", "n", "e">>)
                \/ Includes(s, <<"1", "-", "1">>) THEN "one-on-one"
       ELSE IF Includes(s, <<"r", "e", "v", "i", "e", "w">>) THEN "review"
       ELSE IF Includes(s, <<"p", "l", "a", "n", "n", "i", "n", "g">>)
                \/ Includes(s, <<"s", "p", "r", "i", "n", "t">>) THEN "planning"
       ELSE IF Includes(s, <<"d", "e", "m", "o">>)
                \/ Includes(s, <<"p", "r", "e", "s", "e", "n", "t", "a", "t", "i", "o", "n">>) THEN "presentation"
       ELSE IF Includes(s, <<"k", "i", "c", "k", "o", "f", "f">>)
                \/ Includes(s, <<"k", "i", "c", "k", "-", "o", "f", "f">>) THEN "kickoff"
       ELSE IF external # <<>> THEN "external"
       ELSE "general"

\* Pieces of meeting titles, each with the meeting types its wording names.
TitleFragments ==
    { [text |-> <<"I", "n", "t", "e", "r", "v", "i", "e", "w">>,
       types |-> {"interview"}],
      [text |-> <<"S", "T", "A", "N", "D", "U", "P">>,
       types |-> {"standup"}],
      [text |-> <<"S", "t", "a", "n", "d", "-", "u", "p">>,
       types |-> {"standup"}],
      [text |-> <<"1", ":", "1">>,
       types |-> {"one-on-one"}],
      [text |-> <<"O", "n", "e", " ", "o", "n", " ", "O", "n", "e">>,
       types |-> {"one-on-one"}],
      [text |-> <<"1", "-", "1">>,
       types |-> {"one-on-one"}],
      [text |-> <<"R", "e", "v", "i", "e", "w">>,
       types |-> {"review"}],
      [text |-> <<"p", "r", "e", "v", "i", "e", "w">>,
       types |-> {"review"}],
      [text |-> <<"P", "l", "a", "n", "n", "i", "n", "g">>,
       types |-> {"planning"}],
      [text |-> <<"S", "p", "r", "i", "n", "t">>,
       types |-> {"planning"}],
      [text |-> <<"D", "e", "m", "o">>,
       types |-> {"presentation"}],
      [text |-> <<"P", "r", "e", "s", "e", "n", "t", "a", "t", "i", "o", "n">>,
       types |-> {"presentation"}],
      [text |-> <<"K", "i", "c", "k", "o", "f", "f">>,
       types |-> {"kickoff"}],
      [text |-> <<"k", "i", "c", "k", "-", "o", "f", "f">>,
       types |-> {"kickoff"}],
      [text |-> <<"B", "u", "d", "g", "e", "t">>,
       types |-> {}],
      [text |-> <<"I", "n", "t", "e", "r", "v", "i", "e", "w", "e", "r", " ", "r", "e", "v", "i", "e", "w", "s">>,
       types |-> {"interview", "review"}] }

\* the fragments joined by single spaces
RECURSIVE JoinTexts(_)
JoinTexts(fs) ==
    IF fs = <<>> THEN <<>>
    ELSE IF Len(fs) = 1 THEN Head(fs).text
    ELSE Head(fs).text \o <<" ">> \o JoinTexts(Tail(fs))

ExternalLists == {<<>>, <<"guest@other.example">>}

MeetingTypeCalls ==
    {Called("meetingType", [fragments |-> fs, external |-> ext]) :
        fs \in SeqsUpTo(TitleFragments, MaxWords), ext \in ExternalLists}

DetectType ==
    /\ calc.op = "meetingType"
    /\ ~calc.done
    /\ calc' = Returned(detectMeetingType(JoinTexts(calc.arg.fragments), calc.arg.external))
    /\ UNCHANGED <<user, logs, issued, inv>>

\* -- tasks: time is counted in ticks from the midnight that began today
TicksPerDay == 2

TodayEnd == TicksPerDay
WeekEnd == 7 * TicksPerDay
NowTimes == 0..(TicksPerDay - 1)

NoDue == [set |-> FALSE, at |-> 0]
Due(at) == [set |-> TRUE, at |-> at]
DueTimes ==
    {-TicksPerDay, -1, 0, 1, TodayEnd - 1, TodayEnd, WeekEnd - 1, WeekEnd, WeekEnd + TicksPerDay}

TaskTitles ==
    { <<"B", "u", "d", "g", "e", "t">>,
      <<"U", "R", "G", "E", "N", "T", " ", "r", "e", "v", "i", "e", "w">>,
      <<"I", "m", "p", "o", "r", "t", "a", "n", "t", " ", "c", "a", "l", "l">>,
      <<"W", "r", "i", "t", "e", " ", "a", "s", "a", "p">> }

Tasks == [title : TaskTitles, due : {NoDue} \cup {Due(at) : at \in DueTimes}]

\* Faulty variant: due-today is not told apart from overdue.
ProcessedTaskOverlapping(task, now) ==
    LET hasDue == task.due.set
        isOverdue == hasDue /\ task.due.at < now
        isDueToday == hasDue /\ task.due.at < TodayEnd
        isDueThisWeek == hasDue /\ task.due.at < WeekEnd /\ ~isDueToday /\ ~isOverdue
        title == ToLower(task.title)
        prioritySignal ==
            IF isOverdue THEN "critical"
            ELSE IF isDueToday THEN "high"
            ELSE IF Includes(title, <<"u", "r", "g", "e", "n", "t">>) \/ Includes(title, <<"c", "r", "i", "t", "i", "c", "a", "l">>) \/ Includes(title, <<"a", "s", "a", "p">>)
                 THEN "critical"
            ELSE IF Includes(title, <<"i", "m", "p", "o", "r", "t", "a", "n", "t">>) \/ Includes(title, <<"p", "r", "i", "o", "r", "i", "t", "y">>) \/ isDueThisWeek
                 THEN "high"
            ELSE "normal"
        category ==
            IF Includes(title, <<"r", "e", "v", "i", "e", "w">>) \/ Includes(title, <<"a", "p", "p", "r", "o", "v", "e">>) \/ Includes(title, <<"s", "i", "g", "n">>)
            THEN "approval"
            ELSE IF Includes(title, <<"p", "r", "e", "p", "a", "r", "e">>) \/ Includes(title, <<"d", "r", "a", "f", "t">>) \/ Includes(title, <<"w", "r", "i", "t", "e">>)
            THEN "preparation"
            ELSE IF Includes(title, <<"c", "a", "l", "l">>) \/ Includes(title, <<"m", "e", "e", "t">>) \/ Includes(title, <<"d", "i", "s", "c", "u", "s", "s">>)
            THEN "communication"
            ELSE IF Includes(title, <<"d", "e", "c", "i", "d", "e">>) \/ Includes(title, <<"c", "h", "o", "o", "s", "e">>) \/ Includes(title, <<"f", "i", "n", "a", "l", "i", "z", "e">>)
            THEN "decision"
            ELSE IF Includes(title, <<"f", "o", "l", "l", "o", "w", " ", "u", "p">>) \/ Includes(title, <<"c", "h", "e", "c", "k">>)
            THEN "follow-up"
            ELSE "general"
    IN [title |-> task.title, dueDate |-> task.due,
        isOverdue |-> isOverdue, isDueToday |-> isDueToday, isDueThisWeek |-> isDueThisWeek,
        prioritySignal |-> prioritySignal, category |-> category]

\* tasks.map callback of processTasks
ProcessedTask(task, now) ==
    LET hasDue == task.due.set
        isOverdue == hasDue /\ task.due.at < now
        isDueToday == hasDue /\ task.due.at < TodayEnd /\ ~isOverdue
        isDueThisWeek == hasDue /\ task.due.at < WeekEnd /\ ~isDueToday /\ ~isOverdue
        title == ToLower(task.title)
        prioritySignal ==
            IF isOverdue THEN "critical"
            ELSE IF isDueToday THEN "high"
            ELSE IF Includes(title, <<"u", "r", "g", "e", "n", "t">>) \/ Includes(title, <<"c", "r", "i", "t", "i", "c", "a", "l">>) \/ Includes(title, <<"a", "s", "a", "p">>)
                 THEN "critical"
            ELSE IF Includes(title, <<"i", "m", "p", "o", "r", "t", "a", "n", "t">>) \/ Includes(title, <<"p", "r", "i", "o", "r", "i", "t", "y">>) \/ isDueThisWeek
                 THEN "high"
            ELSE "normal"
        category ==
            IF Includes(title, <<"r", "e", "v", "i", "e", "w">>) \/ Includes(title, <<"a", "p", "p", "r", "o", "v", "e">>) \/ Includes(title, <<"s", "i", "g", "n">>)
            THEN "approval"
            ELSE IF Includes(title, <<"p", "r", "e", "p", "a", "r", "e">>) \/ Includes(title, <<"d", "r", "a", "f", "t">>) \/ Includes(title, <<"w", "r", "i", "t", "e">>)
            THEN "preparation"
            ELSE IF Includes(title, <<"c", "a", "l", "l">>) \/ Includes(title, <<"m", "e", "e", "t">>) \/ Includes(title, <<"d", "i", "s", "c", "u", "s", "s">>)
            THEN "communication"
            ELSE IF Includes(title, <<"d", "e", "c", "i", "d", "e">>) \/ Includes(title, <<"c", "h", "o", "o", "s", "e">>) \/ Includes(title, <<"f", "i", "n", "a", "l", "i", "z", "e">>)
            THEN "decision"
            ELSE IF Includes(title, <<"f", "o", "l", "l", "o", "w", " ", "u", "p">>) \/ Includes(title, <<"c", "h", "e", "c", "k">>)
            THEN "follow-up"
            ELSE "general"
    IN [title |-> task.title, dueDate |-> task.due,
        isOverdue |-> isOverdue, isDueToday |-> isDueToday, isDueThisWeek |-> isDueThisWeek,
        prioritySignal |-> prioritySignal, category |-> category]

PriorityOrder(signal) ==
    CASE signal = "critical" -> 0
      [] signal = "high" -> 1
      [] signal = "normal" -> 2

\* the comparator of processed.sort: TRUE when a sorts before b
TaskBefore(a, b) ==
    IF PriorityOrder(a.prioritySignal) # PriorityOrder(b.prioritySignal)
    THEN PriorityOrder(a.prioritySignal) < PriorityOrder(b.prioritySignal)
    ELSE IF a.dueDate.set /\ b.dueDate.set THEN a.dueDate.at < b.dueDate.at
    ELSE a.dueDate.set /\ ~b.dueDate.set

\* Array.prototype.sort is stable: x goes before the first element it sorts before
RECURSIVE InsertTask(_, _)
InsertTask(x, sorted) ==
    IF sorted = <<>> THEN <<x>>
    ELSE IF TaskBefore(x, Head(sorted)) THEN <<x>> \o sorted
    ELSE <<Head(sorted)>> \o InsertTask(x, Tail(sorted))

RECURSIVE SortTasks(_)
SortTasks(ts) ==
    IF ts = <<>> THEN <<>>
    ELSE InsertTask(ts[Len(ts)], SortTasks(SubSeq(ts, 1, Len(ts) - 1)))

processTasks(tasks, now) ==
    LET processed == SortTasks([i \in 1..Len(tasks) |-> ProcessedTask(tasks[i], now)])
    IN [tasks |-> processed,
        summary |-> [totalTasks |-> Len(processed),
                     overdueCount |-> Len(SelectSeq(processed, LAMBDA x : x.isOverdue)),
                     dueTodayCount |-> Len(SelectSeq(processed, LAMBDA x : x.isDueToday)),
                     dueThisWeekCount |-> Len(SelectSeq(processed, LAMBDA x : x.isDueThisWeek)),
                     criticalCount |-> Len(SelectSeq(processed, LAMBDA x : x.prioritySignal = "critical")),
                     highPriorityCount |-> Len(SelectSeq(processed, LAMBDA x : x.prioritySignal = "high"))],
        overdueTasks |-> SelectSeq(processed, LAMBDA x : x.isOverdue),
        todayTasks |-> SelectSeq(processed, LAMBDA x : x.isDueToday),
        criticalTasks |-> SelectSeq(processed, LAMBDA x : x.prioritySignal = "critical")]

TaskCalls ==
    {Called("tasks", [tasks |-> ts, now |-> now]) :
        ts \in SeqsUpTo(Tasks, MaxItems), now \in NowTimes}

ProcessTasks ==
    /\ calc.op = "tasks"
    /\ ~calc.done
    /\ calc' = Returned(processTasks(calc.arg.tasks, calc.arg.now))
    /\ UNCHANGED <<user, logs, issued, inv>>

\* -- keywords
MaxPhrases == 2     \* phrases a title or a description is put together from

AlnumChars ==
    {"a", "b", "c", "d", "e", "f", "g", "h", "i", "j", "k", "l", "m", "n", "o", "p", "q", "r", "s", "t", "u", "v", "w", "x", "y", "z",
     "A", "B", "C", "D", "E", "F", "G", "H", "I", "J", "K", "L", "M", "N", "O", "P", "Q", "R", "S", "T", "U", "V", "W", "X", "Y", "Z",
     "0", "1", "2", "3", "4", "5", "6", "7", "8", "9"}
SpaceChars == {" ", "\n"}

StopWords ==
    { <<"m", "e", "e", "t", "i", "n", "g">>,
      <<"c", "a", "l", "l">>,
      <<"s", "y", "n", "c">>,
      <<"s", "t", "a", "n", "d", "u", "p">>,
      <<"r", "e", "v", "i", "e", "w">>,
      <<"d", "i", "s", "c", "u", "s", "s", "i", "o", "n">>,
      <<"u", "p", "d", "a", "t", "e">>,
      <<"t", "h", "e">>,
      <<"a", "n", "d">>,
      <<"f", "o", "r">>,
      <<"w", "i", "t", "h">> }

\* s.replace(/[^a-zA-Z0-9\s]/g, ' ')
Alnumify(s) == [i \in 1..Len(s) |-> IF s[i] \in AlnumChars \cup SpaceChars THEN s[i] ELSE " "]

\* /<[^>]*>/g: position i lies in a match when a '<' at or before it has
\* its first later '>' at or after i
InTag(s, i) ==
    \E k \in 1..i :
        /\ s[k] = "<"
        /\ \A m \in (k + 1)..(i - 1) : s[m] # ">"
        /\ \E m \in Max(i, k + 1)..Len(s) : s[m] = ">"

\* description.replace(/<[^>]*>/g, ' '): one space where each match ends
StripTags(s) ==
    LET kept == SelectSeq([i \in 1..Len(s) |-> i], LAMBDA i : ~InTag(s, i) \/ s[i] = ">")
    IN [k \in 1..Len(kept) |-> IF InTag(s, kept[k]) THEN " " ELSE s[kept[k]]]

\* the maximal runs of non-space characters, in order
NonEmptyWords(s) ==
    LET starts == {i \in 1..Len(s) : s[i] \notin SpaceChars /\ (i = 1 \/ s[i - 1] \in SpaceChars)}
        nth(k) == CHOOSE i \in starts : Cardinality({j \in starts : j < i}) = k - 1
        endOf(i) == CHOOSE j \in i..Len(s) :
                        /\ j = Len(s) \/ s[j + 1] \in SpaceChars
                        /\ \A m \in i..j : s[m] \notin SpaceChars
    IN [k \in 1..Cardinality(starts) |-> SubSeq(s, nth(k), endOf(nth(k)))]

\* s.split(/\s+/): an empty word leads when s is empty or begins with a
\* space, and one trails when s ends with a space
SplitWs(s) ==
    (IF s = <<>> \/ s[1] \in SpaceChars THEN << <<>> >> ELSE <<>>)
        \o NonEmptyWords(s)
        \o (IF s # <<>> /\ s[Len(s)] \in SpaceChars THEN << <<>> >> ELSE <<>>)

\* arr.slice(0, n)
Slice(arr, n) == SubSeq(arr, 1, IF Len(arr) < n THEN Len(arr) ELSE n)

\* arr.join(' ')
RECURSIVE JoinWords(_)
JoinWords(ws) ==
    IF ws = <<>> THEN <<>>
    ELSE IF Len(ws) = 1 THEN Head(ws)
    ELSE Head(ws) \o <<" ">> \o JoinWords(Tail(ws))

\* Faulty variant: the stop-word test does not lower-case the word.
KeepsTitleWordCaseSensitive(w) == Len(w) > 3 /\ w \notin StopWords

\* w.length > 3 && !stopWords.has(w.toLowerCase())
KeepsTitleWord(w) == Len(w) > 3 /\ ToLower(w) \notin StopWords

extractKeywords(subject, description) ==
    LET words == SplitWs(Alnumify(subject))
        keywords == Slice(SelectSeq(words, KeepsTitleWord), 5)
        descWords == SplitWs(Alnumify(StripTags(description)))
        more == Slice(SelectSeq(descWords, LAMBDA w : Len(w) > 4), 5)
    IN JoinWords(Slice(IF description # <<>> THEN keywords \o more ELSE keywords, 8))

TitlePhrases ==
    { <<"Q", "u", "a", "r", "t", "e", "r", "l", "y", " ", "B", "u", "d", "g", "e", "t", " ", "P", "l", "a", "n", "n", "i", "n", "g">>,
      <<"M", "E", "E", "T", "I", "N", "G", " ", "R", "o", "a", "d", "m", "a", "p", " ", "V", "e", "n", "d", "o", "r", " ", "C", "o", "n", "t", "r", "a", "c", "t">>,
      <<"W", "e", "e", "k", "l", "y", " ", "S", "y", "n", "c", ":", " ", "t", "h", "e", " ", "Q", "3", " ", "R", "e", "v", "i", "e", "w">>,
      <<"r", "e", "-", "o", "r", "g", " ", "c", "a", "l", "l">> }

DescriptionPhrases ==
    { <<"<", "p", ">", "A", "g", "e", "n", "d", "a", " ", "i", "t", "e", "m", "s", "<", "/", "p", ">">>,
      <<"p", "r", "i", "c", "i", "n", "g", " ", "u", "p", "d", "a", "t", "e", "s", " ", "v", "e", "n", "d", "o", "r", "s">>,
      <<"a", " ", "<", " ", "b", ":", " ", "m", "e", "e", "t", "i", "n", "g", " ", "n", "o", "t", "e", "s">> }

KeywordCalls ==
    {Called("keywords", [subject |-> JoinWords(ts), description |-> JoinWords(ds)]) :
        ts \in SeqsUpTo(TitlePhrases, MaxPhrases), ds \in SeqsUpTo(DescriptionPhrases, MaxPhrases)}

\* extractKeywords(subject, description), with the title alone, and again on
\* the keywords of the title alone
ExtractKeywords ==
    /\ calc.op = "keywords"
    /\ ~calc.done
    /\ LET titleOnly == extractKeywords(calc.arg.subject, <<>>)
       IN calc' = Returned([keywords |-> extractKeywords(calc.arg.subject, calc.arg.description),
                            titleOnly |-> titleOnly,
                            again |-> extractKeywords(titleOnly, <<>>)])
    /\ UNCHANGED <<user, logs, issued, inv>>

\* ------------------------------------------------------------ emails and ordering
MaxBatch == 2               \* messages or tasks in a fetched list
CriticalEmailsShown == 5
ActionableEmailsShown == 8
TasksShown == 5

HasLabel(labelIds, l) == \E i \in 1..Len(labelIds) : labelIds[i] = l

\* emails.map callback of processEmails (the sender fields are left out)
ProcessedEmail(email) ==
    LET isStarred == HasLabel(email.labelIds, "STARRED")
        isImportant == HasLabel(email.labelIds, "IMPORTANT")
        isUnread == HasLabel(email.labelIds, "UNREAD")
        subjectLower == ToLower(email.subject)
        urgencyLevel ==
            IF Includes(subjectLower, <<"u", "r", "g", "e", "n", "t">>) \/ Includes(subjectLower, <<"a", "s", "a", "p">>) \/ Includes(subjectLower, <<"i", "m", "m", "e", "d", "i", "a", "t", "e", "l", "y">>) \/ Includes(subjectLower, <<"c", "r", "i", "t", "i", "c", "a", "l">>)
            THEN "critical"
            ELSE IF Includes(subjectLower, <<"i", "m", "p", "o", "r", "t", "a", "n", "t">>) \/ Includes(subjectLower, <<"a", "c", "t", "i", "o", "n", " ", "r", "e", "q", "u", "i", "r", "e", "d">>) \/ Includes(subjectLower, <<"d", "e", "a", "d", "l", "i", "n", "e">>) \/ Includes(subjectLower, <<"r", "e", "m", "i", "n", "d", "e", "r">>)
            THEN "high"
            ELSE IF isImportant \/ isStarred THEN "high"
            ELSE "normal"
        category ==
            IF Includes(subjectLower, <<"a", "p", "p", "r", "o", "v", "e">>) \/ Includes(subjectLower, <<"a", "p", "p", "r", "o", "v", "a", "l">>) \/ Includes(subjectLower, <<"s", "i", "g", "n">>)
            THEN "approval-needed"
            ELSE IF Includes(subjectLower, <<"d", "e", "c", "i", "s", "i", "o", "n">>) \/ Includes(subjectLower, <<"c", "h", "o", "o", "s", "e">>) \/ Includes(subjectLower, <<"o", "p", "t", "i", "o", "n">>)
            THEN "decision-needed"
            ELSE IF Includes(subjectLower, <<"f", "y", "i">>) \/ Includes(subjectLower, <<"u", "p", "d", "a", "t", "e">>) \/ Includes(subjectLower, <<"n", "e", "w", "s", "l", "e", "t", "t", "e", "r">>)
            THEN "informational"
            ELSE IF Includes(subjectLower, <<"q", "u", "e", "s", "t", "i", "o", "n">>) \/ Includes(subjectLower, <<"h", "e", "l", "p">>) \/ Includes(subjectLower, <<"r", "e", "q", "u", "e", "s", "t">>)
            THEN "request"
            ELSE IF Includes(subjectLower, <<"m", "e", "e", "t", "i", "n", "g">>) \/ Includes(subjectLower, <<"i", "n", "v", "i", "t", "e">>)
            THEN "meeting-related"
            ELSE IF Includes(subjectLower, <<"r", "e", "p", "o", "r", "t">>) \/ Includes(subjectLower, <<"s", "t", "a", "t", "u", "s">>) \/ Includes(subjectLower, <<"w", "e", "e", "k", "l", "y">>)
            THEN "report"
            ELSE "general"
    IN [subject |-> email.subject, snippet |-> email.snippet,
        isStarred |-> isStarred, isImportant |-> isImportant, isUnread |-> isUnread,
        urgencyLevel |-> urgencyLevel, category |-> category,
        requiresAction |-> category \in {"approval-needed", "decision-needed", "request"}]

urgencyOrder(level) ==
    CASE level = "critical" -> 0
      [] level = "high" -> 1
      [] level = "normal" -> 2

\* Faulty variant: the sort is not stable, an element goes before its equals.
RECURSIVE InsertEmailBeforeEquals(_, _)
InsertEmailBeforeEquals(x, sorted) ==
    IF sorted = <<>> THEN <<x>>
    ELSE IF urgencyOrder(x.urgencyLevel) - urgencyOrder(Head(sorted).urgencyLevel) <= 0
         THEN <<x>> \o sorted
    ELSE <<Head(sorted)>> \o InsertEmailBeforeEquals(x, Tail(sorted))

\* processed.sort((a, b) => urgencyOrder[a] - urgencyOrder[b]), a stable sort:
\* x goes before the first element the comparator puts it before
RECURSIVE InsertEmail(_, _)
InsertEmail(x, sorted) ==
    IF sorted = <<>> THEN <<x>>
    ELSE IF urgencyOrder(x.urgencyLevel) - urgencyOrder(Head(sorted).urgencyLevel) < 0
         THEN <<x>> \o sorted
    ELSE <<Head(sorted)>> \o InsertEmail(x, Tail(sorted))

RECURSIVE SortEmails(_)
SortEmails(es) ==
    IF es = <<>> THEN <<>>
    ELSE InsertEmail(es[Len(es)], SortEmails(SubSeq(es, 1, Len(es) - 1)))

processEmails(emails) ==
    LET processed == SortEmails([i \in 1..Len(emails) |-> ProcessedEmail(emails[i])])
        count(test(_)) == Len(SelectSeq(processed, test))
    IN [emails |-> processed,
        actionableEmails |-> SelectSeq(processed, LAMBDA e : e.requiresAction),
        summary |-> [totalEmails |-> Len(processed),
                     unreadCount |-> count(LAMBDA e : e.isUnread),
                     actionableCount |-> count(LAMBDA e : e.requiresAction),
                     criticalCount |-> count(LAMBDA e : e.urgencyLevel = "critical"),
                     highPriorityCount |-> count(LAMBDA e : e.urgencyLevel = "high"),
                     byCategory |->
                         [approvalNeeded |-> count(LAMBDA e : e.category = "approval-needed"),
                          decisionNeeded |-> count(LAMBDA e : e.category = "decision-needed"),
                          requests |-> count(LAMBDA e : e.category = "request")]],
        criticalEmails |-> SelectSeq(processed, LAMBDA e : e.urgencyLevel = "critical"),
        highPriorityEmails |-> SelectSeq(processed, LAMBDA e : e.urgencyLevel = "high")]

\* buildAIContext: the emails part
EmailsContext(emails) ==
    [summary |-> emails.summary,
     criticalEmails |-> Slice(emails.criticalEmails, CriticalEmailsShown),
     actionableEmails |-> Slice(emails.actionableEmails, ActionableEmailsShown)]

\* buildAIContext: the tasks part
TasksContext(tasks) ==
    [summary |-> tasks.summary,
     overdueTasks |-> Slice(tasks.overdueTasks, TasksShown),
     todayTasks |-> Slice(tasks.todayTasks, TasksShown),
     criticalTasks |-> Slice(tasks.criticalTasks, TasksShown)]

EmailSubjects ==
    { <<"U", "R", "G", "E", "N", "T", ":", " ", "a", "p", "p", "r", "o", "v", "e", " ", "b", "u", "d", "g", "e", "t">>,
      <<"D", "e", "a", "d", "l", "i", "n", "e", " ", "r", "e", "m", "i", "n", "d", "e", "r">>,
      <<"W", "e", "e", "k", "l", "y", " ", "r", "e", "p", "o", "r", "t">>,
      <<"L", "u", "n", "c", "h", "?">> }

LabelLists == {<<>>, <<"STARRED">>, <<"IMPORTANT", "UNREAD">>}

EmailKinds == [subject : EmailSubjects, labelIds : LabelLists]

\* two kinds that longer inboxes are made of: one critical and actionable, one high
LongKinds ==
    { [subject |-> <<"U", "R", "G", "E", "N", "T", ":", " ", "a", "p", "p", "r", "o", "v", "e", " ", "b", "u", "d", "g", "e", "t">>, labelIds |-> <<"UNREAD">>],
      [subject |-> <<"W", "e", "e", "k", "l", "y", " ", "r", "e", "p", "o", "r", "t">>, labelIds |-> <<"STARRED">>] }

SeqsOfLen(S, n) == {q \in SeqsUpTo(S, n) : Len(q) = n}

\* the fetched messages in fetch order, the snippet telling them apart
Numbered(kinds) ==
    [i \in 1..Len(kinds) |->
        [subject |-> kinds[i].subject, labelIds |-> kinds[i].labelIds, snippet |-> i]]

Inboxes ==
    {Numbered(ks) : ks \in SeqsUpTo(EmailKinds, MaxBatch)
                          \cup SeqsOfLen(LongKinds, CriticalEmailsShown + 1)
                          \cup SeqsOfLen(LongKinds, ActionableEmailsShown + 1)}

EmailCalls == {Called("emails", inbox) : inbox \in Inboxes}

ProcessEmails ==
    /\ calc.op = "emails"
    /\ ~calc.done
    /\ calc' = Returned([processed |-> processEmails(calc.arg),
                         context |-> EmailsContext(processEmails(calc.arg))])
    /\ UNCHANGED <<user, logs, issued, inv>>

OrderedTasks ==
    [title : {<<"B", "u", "d", "g", "e", "t">>, <<"U", "R", "G", "E", "N", "T", " ", "r", "e", "v", "i", "e", "w">>},
     due : {NoDue, Due(-1), Due(0), Due(TodayEnd), Due(WeekEnd)}]

LongTasks ==
    { [title |-> <<"B", "u", "d", "g", "e", "t">>, due |-> Due(-1)],
      [title |-> <<"U", "R", "G", "E", "N", "T", " ", "r", "e", "v", "i", "e", "w">>, due |-> NoDue],
      [title |-> <<"W", "r", "i", "t", "e", " ", "a", "s", "a", "p">>, due |-> Due(-TicksPerDay)] }

TaskOrderCalls ==
    {Called("taskOrder", [tasks |-> ts, now |-> now]) :
        ts \in SeqsUpTo(OrderedTasks, MaxBatch) \cup SeqsOfLen(LongTasks, TasksShown + 1),
        now \in NowTimes}

OrderTasks ==
    /\ calc.op = "taskOrder"
    /\ ~calc.done
    /\ calc' = Returned([processed |-> processTasks(calc.arg.tasks, calc.arg.now),
                         context |-> TasksContext(processTasks(calc.arg.tasks, calc.arg.now))])
    /\ UNCHANGED <<user, logs, issued, inv>>

\* ------------------------------------------------------------ event signals
\* Faulty variant: the title is matched as written, not lower-cased.
EventSignalCaseSensitive(title) ==
    LET summary == title
        has(part) == Includes(summary, part)
    IN IF has(<<"b", "o", "a", "r", "d">>) \/ has(<<"i", "n", "v", "e", "s", "t", "o", "r">>)
       THEN [meetingType |-> "board/investor", prioritySignal |-> "critical"]
       ELSE IF has(<<"1", ":", "1">>) \/ has(<<"o", "n", "e", " ", "o", "n", " ", "o", "n", "e">>) \/ has(<<"1", "-", "1">>)
       THEN [meetingType |-> "1:1", prioritySignal |-> "high"]
       ELSE IF has(<<"r", "e", "v", "i", "e", "w">>) \/ has(<<"d", "e", "c", "i", "s", "i", "o", "n">>)
       THEN [meetingType |-> "decision", prioritySignal |-> "high"]
       ELSE IF has(<<"a", "l", "l", " ", "h", "a", "n", "d", "s">>) \/ has(<<"t", "o", "w", "n", " ", "h", "a", "l", "l">>)
       THEN [meetingType |-> "company-wide", prioritySignal |-> "high"]
       ELSE IF has(<<"d", "e", "a", "d", "l", "i", "n", "e">>) \/ has(<<"d", "u", "e">>)
       THEN [meetingType |-> "deadline", prioritySignal |-> "critical"]
       ELSE IF has(<<"i", "n", "t", "e", "r", "v", "i", "e", "w">>)
       THEN [meetingType |-> "interview", prioritySignal |-> "high"]
       ELSE IF has(<<"s", "t", "a", "n", "d", "u", "p">>) \/ has(<<"s", "y", "n", "c">>)
       THEN [meetingType |-> "recurring", prioritySignal |-> "normal"]
       ELSE [meetingType |-> "general", prioritySignal |-> "normal"]

\* The meetingType / prioritySignal chain of processCalendarEvents' map.
EventSignal(title) ==
    LET summary == ToLower(title)
        has(part) == Includes(summary, part)
    IN IF has(<<"b", "o", "a", "r", "d">>) \/ has(<<"i", "n", "v", "e", "s", "t", "o", "r">>)
       THEN [meetingType |-> "board/investor", prioritySignal |-> "critical"]
       ELSE IF has(<<"1", ":", "1">>) \/ has(<<"o", "n", "e", " ", "o", "n", " ", "o", "n", "e">>) \/ has(<<"1", "-", "1">>)
       THEN [meetingType |-> "1:1", prioritySignal |-> "high"]
       ELSE IF has(<<"r", "e", "v", "i", "e", "w">>) \/ has(<<"d", "e", "c", "i", "s", "i", "o", "n">>)
       THEN [meetingType |-> "decision", prioritySignal |-> "high"]
       ELSE IF has(<<"a", "l", "l", " ", "h", "a", "n", "d", "s">>) \/ has(<<"t", "o", "w", "n", " ", "h", "a", "l", "l">>)
       THEN [meetingType |-> "company-wide", prioritySignal |-> "high"]
       ELSE IF has(<<"d", "e", "a", "d", "l", "i", "n", "e">>) \/ has(<<"d", "u", "e">>)
       THEN [meetingType |-> "deadline", prioritySignal |-> "critical"]
       ELSE IF has(<<"i", "n", "t", "e", "r", "v", "i", "e", "w">>)
       THEN [meetingType |-> "interview", prioritySignal |-> "high"]
       ELSE IF has(<<"s", "t", "a", "n", "d", "u", "p">>) \/ has(<<"s", "y", "n", "c">>)
       THEN [meetingType |-> "recurring", prioritySignal |-> "normal"]
       ELSE [meetingType |-> "general", prioritySignal |-> "normal"]

\* Words that event titles are put together from.
EventWords ==
    { <<"B", "o", "a", "r", "d">>,
      <<"I", "N", "V", "E", "S", "T", "O", "R">>,
      <<"1", ":", "1">>,
      <<"O", "n", "e", " ", "o", "n", " ", "O", "n", "e">>,
      <<"1", "-", "1">>,
      <<"R", "e", "v", "i", "e", "w">>,
      <<"D", "e", "c", "i", "s", "i", "o", "n">>,
      <<"A", "l", "l", " ", "H", "a", "n", "d", "s">>,
      <<"T", "o", "w", "n", " ", "H", "a", "l", "l">>,
      <<"D", "e", "a", "d", "l", "i", "n", "e">>,
      <<"O", "v", "e", "r", "d", "u", "e">>,
      <<"I", "n", "t", "e", "r", "v", "i", "e", "w">>,
      <<"S", "t", "a", "n", "d", "u", "p">>,
      <<"S", "y", "n", "c">>,
      <<"L", "u", "n", "c", "h">> }

\* (event.summary || ''): an event without a summary has the empty title
EventSignalCalls == {Called("eventSignal", JoinWords(ws)) : ws \in SeqsUpTo(EventWords, MaxWords)}

SignalEvent ==
    /\ calc.op = "eventSignal"
    /\ ~calc.done
    /\ calc' = Returned(EventSignal(calc.arg))
    /\ UNCHANGED <<user, logs, issued, inv>>

DayHealthCalls == {Called("dayHealth", es) : es \in SeqsUpTo(CalendarEvents, MaxEvents)}

ComputeDayHealth ==
    /\ calc.op = "dayHealth"
    /\ ~calc.done
    /\ calc' = Returned(buildAIContext(processCalendarEvents(calc.arg)).dayHealth)
    /\ UNCHANGED <<user, logs, issued, inv>>

\* How strategic_goals came to be stored: through the settings form, as
\* text written to the column directly, or never.
GoalsCalls ==
    {Called("goals", [origin |-> o, raw |-> t]) :
        o \in {"form", "text"}, t \in SeqsUpTo(TextChars, MaxText)}
        \cup {Called("goals", [origin |-> "absent", raw |-> <<>>])}

StoredGoals(arg) == IF arg.origin = "form" THEN saveProfile(arg.raw) ELSE arg.raw

ParseGoals ==
    /\ calc.op = "goals"
    /\ ~calc.done
    /\ calc' = Returned([stored |-> StoredGoals(calc.arg),
                         goals |-> parseStrategicGoals(StoredGoals(calc.arg))])
    /\ UNCHANGED <<user, logs, issued, inv>>

PureInit ==
    /\ user = ConnectedUser(1)
    /\ logs = <<>>
    /\ issued = 1
    /\ inv = [p \in Procs |-> Idle]
    /\ calc \in DayHealthCalls \cup GoalsCalls \cup MeetingTypeCalls \cup TaskCalls
                \cup KeywordCalls \cup EventSignalCalls
                \cup EmailCalls \cup TaskOrderCalls

PureNext ==
    \/ ComputeDayHealth
    \/ ParseGoals
    \/ DetectType
    \/ ProcessTasks
    \/ ExtractKeywords
    \/ SignalEvent
    \/ ProcessEmails
    \/ OrderTasks

PureSpec == PureInit /\ [][PureNext]_vars

\* ------------------------------------------------------------ properties
\* The invocation loaded a user row that holds a Google access token (steps 1-2).
PassedPreconditions(p) == inv[p].user.exists /\ inv[p].user.access # 0

NumQualifying(events) == Cardinality({i \in 1..Len(events) : events[i] = "meeting"})

\* C1: a request whose cookie is missing or does not verify is answered at once:
\* no row is read or written, no Google, AI or mail call is made, nothing is
\* logged, and a POST gets the unauthenticated error.
C1_UnauthenticatedAborts ==
    \A p \in Procs :
        (inv[p].pc # "idle" /\ inv[p].cookie # "good") =>
            /\ inv[p].pc = "done"
            /\ inv[p].calls = NoCalls
            /\ inv[p].logged = <<>>
            /\ logs = <<>>
            /\ inv[p].resp.code \in {401, 405}
            /\ inv[p].method = "POST" => inv[p].resp = Unauthenticated

C1_Witness ==
    \E p \in Procs :
        /\ inv[p].pc = "done"
        /\ inv[p].method = "POST"
        /\ inv[p].cookie = "bad"
        /\ inv[p].resp = Unauthenticated

\* C2: when the loaded row has no Google access token the run ends with the
\* no-connection error after that one read: no refresh, fetch, AI or send call,
\* no log entry, and the row is as it was read.
C2_NoConnectionAborts ==
    \A p \in Procs :
        (inv[p].user.exists /\ inv[p].user.access = 0) =>
            /\ inv[p].pc = "done"
            /\ inv[p].resp = NoGoogleConnection
            /\ inv[p].calls = [NoCalls EXCEPT !.userRead = 1]
            /\ inv[p].logged = <<>>
            /\ logs = <<>>
            /\ user = inv[p].user

C2_Witness ==
    \E p \in Procs :
        /\ inv[p].pc = "done"
        /\ inv[p].user = DisconnectedUser
        /\ inv[p].resp = NoGoogleConnection

ExpectedStatus(p) == IF inv[p].failedAt = "none" THEN "success" ELSE "failed"

C4_NoMeetingsShortcut ==
    \A p \in Procs :
        (/\ inv[p].feature = "brief"
         /\ inv[p].pc = "done"
         /\ PassedPreconditions(p)
         /\ inv[p].failedAt = "none"
         /\ NumQualifying(inv[p].events) = 0) =>
            /\ inv[p].resp.code = 200
            /\ inv[p].resp.success
            /\ inv[p].resp.meeting_count = 0
            /\ Len(inv[p].logged) = 1
            /\ inv[p].logged[1].status = "success"
            /\ inv[p].logged[1].meeting_count = 0
            /\ inv[p].logged[1].note # "none"
            /\ inv[p].calls.ai = 0
            /\ inv[p].calls.send = 0
            /\ ~inv[p].sent

C4_Witness ==
    \E p \in Procs :
        /\ inv[p].feature = "brief"
        /\ inv[p].pc = "done"
        /\ inv[p].events = <<"solo", "cancelled">>
        /\ inv[p].resp.code = 200
        /\ logs = inv[p].logged
        /\ Len(logs) = 1

ZeroContext(b) == \A k \in DOMAIN b.context : b.context[k] = 0

\* C5: in the meeting-brief run a failed meeting never ends the batch: the
\* briefs handed to composition are one per qualifying event, in calendar
\* order, a failed one as a placeholder with an error note and context counts
\* 0; the mail is sent and success is logged with the number of qualifying events.
C5_PlaceholderKeepsBatch ==
    \A p \in Procs :
        inv[p].feature = "brief" =>
            /\ inv[p].failedAt # "ai"
            /\ Len(inv[p].meetings) = NumQualifying(inv[p].events)
            /\ \A i \in 1..Len(inv[p].meetings) :
                  /\ inv[p].events[inv[p].meetings[i]] = "meeting"
                  /\ i > 1 => inv[p].meetings[i - 1] < inv[p].meetings[i]
            /\ (inv[p].meetings # <<>> /\ Len(inv[p].briefs) = Len(inv[p].meetings)) =>
                  /\ inv[p].pc \in {"send", "logSuccess", "logFail", "done"}
                  /\ inv[p].pc # "send" => inv[p].calls.send = 1
            /\ inv[p].calls.send = 1 =>
                  /\ Len(inv[p].composed) = Len(inv[p].meetings)
                  /\ \A i \in 1..Len(inv[p].composed) :
                        /\ inv[p].composed[i].id = inv[p].meetings[i]
                        /\ inv[p].composed[i].kind = "placeholder" =>
                              (inv[p].composed[i].note \in ErrTexts /\ ZeroContext(inv[p].composed[i]))
            /\ (inv[p].pc = "done" /\ inv[p].sent) =>
                  /\ inv[p].resp.success
                  /\ inv[p].resp.meeting_count = NumQualifying(inv[p].events)
                  /\ Len(inv[p].logged) = 1
                  /\ inv[p].logged[1].status = "success"
                  /\ inv[p].logged[1].meeting_count = NumQualifying(inv[p].events)

C5_Witness ==
    \E p \in Procs :
        /\ inv[p].feature = "brief"
        /\ inv[p].pc = "done"
        /\ inv[p].sent
        /\ Len(inv[p].composed) = 2
        /\ inv[p].composed[1].kind = "placeholder"
        /\ inv[p].composed[2].kind = "ai"
        /\ inv[p].logged[1].meeting_count = 2

DeliveredUnchanged(gw, counts) ==
    \A b \in DOMAIN gw : counts[b] = IF gw[b].st = "ok" THEN gw[b].n ELSE 0

\* C6: the arms of a fan-out are isolated: an arm whose gateway call raised
\* hands over an empty list, the other arms' results arrive unchanged, the
\* join does not reject and the AI call is made.
C6_BranchesIsolated ==
    \A p \in Procs :
        /\ (inv[p].feature = "brief" /\ inv[p].pc \in {"meeting", "send"} /\ inv[p].briefs # <<>>) =>
              /\ Joined(inv[p])
              /\ inv[p].calls.ai = Len(inv[p].briefs)
              /\ Last(inv[p].briefs).kind = "ai" =>
                    DeliveredUnchanged(inv[p].gw, Last(inv[p].briefs).context)
        /\ (inv[p].feature = "priorities" /\ inv[p].pc = "send") =>
              /\ Joined(inv[p])
              /\ inv[p].calls.ai = 1
              /\ DeliveredUnchanged(inv[p].gw, inv[p].sources)
        /\ inv[p].feature = "priorities" => inv[p].failedAt # "fetch"

C6_Witness ==
    \E p \in Procs :
        /\ inv[p].feature = "brief"
        /\ inv[p].pc = "send"
        /\ inv[p].gw = [emails |-> Got(MaxItems), documents |-> Raised,
                        previous_meetings |-> Got(MaxItems)]
        /\ Last(inv[p].briefs).kind = "ai"
        /\ Last(inv[p].briefs).context =
              [emails |-> MaxItems, documents |-> 0, previous_meetings |-> MaxItems]

\* C7 as stated: no failure of an external data-source fetch ends a run in failed.
C7_NoFetchFailureIsFatal ==
    \A p \in Procs : inv[p].failedAt # "fetch"

\* C7 amended: a fetch failure ends a run in failed only when it is the first
\* list call of the meeting-brief (today's events) or of the inbox-summary
\* (the message search); every later fetch of a run, and every fetch of the
\* priority digest, degrades to an empty result and the run goes on.
C7_OnlyPrimaryListIsFatal ==
    \A p \in Procs :
        /\ inv[p].failedAt = "fetch" =>
              /\ inv[p].feature \in {"brief", "inbox"}
              /\ inv[p].calls.fetch = 1
              /\ inv[p].events = <<>>
              /\ inv[p].listed = 0
        /\ (inv[p].gw # <<>> /\ \E b \in DOMAIN inv[p].gw : inv[p].gw[b] = Raised) =>
              inv[p].pc \in {"fanout", "meeting", "send"}

C7_Witness ==
    \E p \in Procs :
        /\ inv[p].feature = "priorities"
        /\ inv[p].pc = "send"
        /\ inv[p].gw["calendar"] = Raised
        /\ inv[p].sources["calendar"] = 0

\* C8: a failed token refresh does not end the run: the next step is the data
\* fetch, with the access token read from the row; the row is not written and
\* the refresh is attempted once.
C8_RefreshFailureContinues ==
    \A p \in Procs :
        inv[p].refreshFailed =>
            /\ inv[p].pc \notin {"refresh", "saveToken"}
            /\ inv[p].calls.fetch = 0 => inv[p].pc \in {"fetch", "fanout"}
            /\ inv[p].failedAt # "refresh"
            /\ inv[p].cred = inv[p].user.access
            /\ inv[p].calls.refresh = 1
            /\ inv[p].calls.userWrite = 0
            /\ user = inv[p].user

C8_Witness ==
    \E p \in Procs :
        /\ inv[p].refreshFailed
        /\ inv[p].user.refresh # 0
        /\ inv[p].pc = "done"
        /\ inv[p].sent

\* C9: two failed runs of the same feature return the same body, whatever the
\* text of the error that ended each.
C9_StaticFailureMessage ==
    \A p, q \in Procs :
        (/\ inv[p].pc = "done" /\ inv[q].pc = "done"
         /\ inv[p].failedAt # "none" /\ inv[q].failedAt # "none"
         /\ inv[p].feature = inv[q].feature) =>
            inv[p].resp = inv[q].resp

HasSuccessEntry(p) == \E i \in 1..Len(inv[p].logged) : inv[p].logged[i].status = "success"

\* C10: an AI failure of the priority digest and a send failure of any
\* orchestrator end the run: no mail goes out after an AI failure, no success
\* entry is logged, the caller gets an error, and no call is made twice.
C10_AiAndSendFailuresFatal ==
    \A p \in Procs :
        /\ inv[p].failedAt = "ai" =>
              (inv[p].feature # "brief" /\ inv[p].calls.ai = 1 /\ inv[p].calls.send = 0)
        /\ inv[p].failedAt = "send" => inv[p].calls.send = 1
        /\ inv[p].failedAt \in {"ai", "send"} =>
              /\ ~inv[p].sent
              /\ ~HasSuccessEntry(p)
              /\ inv[p].pc \in {"logFail", "done"}
              /\ inv[p].pc = "done" => (inv[p].resp.code = 500 /\ ~inv[p].resp.success)
        /\ (inv[p].feature = "priorities" /\ inv[p].pc \in {"send", "logSuccess"}) =>
              inv[p].failedAt = "none"
        /\ inv[p].calls.userRead <= 1
        /\ inv[p].calls.refresh <= 1
        /\ inv[p].calls.userWrite <= 1
        /\ inv[p].calls.send <= 1
        /\ Len(inv[p].logged) <= 1
        /\ inv[p].feature # "brief" => inv[p].calls.ai <= 1
        /\ inv[p].feature = "brief" =>
              (inv[p].calls.ai <= Len(inv[p].meetings)
                  /\ inv[p].calls.fetch <= 1 + 3 * Len(inv[p].meetings))
        /\ inv[p].feature = "priorities" => inv[p].calls.fetch <= 3
        /\ inv[p].feature = "inbox" => inv[p].calls.fetch <= 1 + inv[p].listed

C10_Witness ==
    \E p \in Procs :
        /\ inv[p].feature = "priorities"
        /\ inv[p].failedAt = "ai"
        /\ inv[p].pc = "done"
        /\ inv[p].resp.code = 500
        /\ Len(inv[p].logged) = 1
        /\ inv[p].logged[1].status = "failed"
        /\ logs = inv[p].logged

\* The answer a run owes its caller, from how the run ended and nothing else.
OwedResponse(me) ==
    IF me.failedAt # "none" THEN FailureResponse(me.feature, me.err)
    ELSE IF me.sent THEN SentResponse(me)
    ELSE Resp(200, TRUE, <<>>, 0, "No meetings with attendees found today. No brief needed!")

\* C11: whether or not the store kept the log entry, the caller gets the
\* answer of the run: the success answer when the mail was sent, the error
\* answer of the original failure when the run failed; a sent run never
\* answers with an error.
C11_LogFailureKeepsStatus ==
    \A p \in Procs :
        (inv[p].pc = "done" /\ inv[p].logged # <<>>) =>
            /\ inv[p].resp = OwedResponse(inv[p])
            /\ inv[p].sent => (inv[p].resp.code = 200 /\ inv[p].resp.success)
            /\ inv[p].failedAt # "none" =>
                  (inv[p].resp.code = 500 /\ inv[p].resp.error[2] = inv[p].err
                      /\ inv[p].failedAt \in {"fetch", "ai", "send"})

\* the success insert was refused after the mail went out
C11_Witness ==
    \E p \in Procs :
        /\ inv[p].pc = "done"
        /\ inv[p].sent
        /\ Len(inv[p].logged) = 1
        /\ logs = <<>>
        /\ inv[p].resp.code = 200

RECURSIVE TodayTenths(_)
TodayTenths(es) ==
    IF es = <<>> THEN 0
    ELSE (IF Head(es).day = 0 THEN RoundedTenths(Head(es).mins) ELSE 0) + TodayTenths(Tail(es))

\* C12: for every list of events, availableFocusHours is max(0, 8 - today's
\* meeting hours), so it is 0 when today's meetings fill 8 hours or more.
C12_FocusHoursClamped ==
    (calc.op = "dayHealth" /\ calc.done) =>
        calc.out.availableFocusHours = Max(0, WorkdayHours * 10 - TodayTenths(calc.arg))

\* The inbox-summary run has its classification: the model answered.
Classified(p) == inv[p].feature = "inbox" /\ inv[p].classified # <<>>

\* the emails 1..n in the order they were fetched
RECURSIVE UpTo(_)
UpTo(n) == IF n = 0 THEN <<>> ELSE Append(UpTo(n - 1), n)

\* C13: when the model's classification cannot be parsed, every fetched email
\* is in highPriority, in order, the other three categories are empty, and the
\* total over the four categories is the number of emails fetched.
C13_ParseFailureDropsNothing ==
    \A p \in Procs :
        (Classified(p) /\ ~inv[p].classified[1].parses) =>
            /\ inv[p].emails >= 1
            /\ inv[p].categories["highPriority"] = UpTo(inv[p].emails)
            /\ \A c \in Categories \ {"highPriority"} : inv[p].categories[c] = <<>>
            /\ inv[p].categorized = inv[p].emails

C13_Witness ==
    \E p \in Procs :
        /\ Classified(p)
        /\ inv[p].classified[1] = Unparsable
        /\ inv[p].emails = MaxItems
        /\ inv[p].categorized = MaxItems
        /\ inv[p].pc = "done"
        /\ inv[p].sent

\* entries of the model's array that name no fetched email or no known category
Misfits(arr, n) ==
    {i \in 1..Len(arr) : arr[i].index \notin 1..n \/ arr[i].category \notin Categories}

Wellformed(arr, n) == {i \in 1..Len(arr) : i \notin Misfits(arr, n)}

InHighPriority(arr, n) == {i \in Wellformed(arr, n) : arr[i].category = "highPriority"}

\* C14: every entry of the parsed classification whose index is out of range
\* or whose category is unknown adds an item to highPriority: that list holds
\* one item per such entry besides the entries that asked for highPriority.
C14_MisfitsBecomeHighPriority ==
    \A p \in Procs :
        (Classified(p) /\ inv[p].classified[1].parses) =>
            LET arr == inv[p].classified[1].arr
            IN Len(inv[p].categories["highPriority"]) =
                   Cardinality(Misfits(arr, inv[p].emails))
                       + Cardinality(InHighPriority(arr, inv[p].emails))

\* C15: goals saved through the form as a JSON array parse back to the same
\* list, goals stored as text parse to the trimmed non-empty lines, and an
\* empty or absent value, the empty list of a blank form included, gives the
\* three default goals.
C15_GoalsRoundTrip ==
    (calc.op = "goals" /\ calc.done) =>
        LET typed == GoalLines(calc.arg.raw)
            blank == \/ calc.arg.origin = "absent"
                     \/ calc.arg.origin = "form" /\ typed = <<>>
                     \/ calc.arg.origin = "text" /\ calc.arg.raw = <<>>
        IN calc.out.goals = IF blank THEN DefaultGoals ELSE Strs(typed)

AccountOps ==
    {"authSession", "authSessionEarlier", "profileGet", "profilePut", "history",
     "googleDisconnect", "userDisconnect"}

LogColumns == {"user_id", "meeting_count", "status", "note"}

\* C16: no answer carries the access token or the refresh token: the user
\* object of every account handler's body has neither column, the rows of the
\* history have only log columns, and the orchestrators' answers have only
\* their status, counts and messages.
C16_NoTokenInAnyAnswer ==
    /\ calc.op \in AccountOps =>
          /\ DOMAIN calc.out.user \cap TokenColumns = {}
          /\ \A i \in 1..Len(calc.out.logs) : DOMAIN calc.out.logs[i] = LogColumns
    /\ \A p \in Procs :
          DOMAIN inv[p].resp = {"code", "success", "error", "meeting_count", "message"}

\* the profile of a user holding both tokens was returned
C16_Witness ==
    /\ calc.op = "profileGet"
    /\ calc.out.code = 200
    /\ user.access # 0
    /\ user.refresh # 0
    /\ DOMAIN calc.out.user = {"calendar_id", "goals", "name", "email"}

\* every entry of the table is still there, unchanged, after the step
EntriesKept == \A i \in 1..Len(logs) : Len(logs') >= i /\ logs'[i] = logs[i]

\* C17 as stated: no operation, account deletion included, modifies or
\* removes a briefing-log entry once it is written.
C17_LogsAppendOnly == [][EntriesKept]_vars

\* C17 amended: an entry is never modified, and it is removed only by the
\* deletion of the account, which removes the user's entries together with
\* the user row; generate runs, profile reads and updates, the Google
\* disconnect and history reads leave every entry as written.
C17_LogsKeptUntilAccountDeleted ==
    [][EntriesKept \/ (calc'.op = "userDisconnect" /\ ~user'.exists /\ logs' = <<>>)]_vars

\* an entry outlived a profile update and the Google disconnect and is read back
C17_Witness ==
    /\ logs # <<>>
    /\ user.exists
    /\ user.access = 0
    /\ user.goals = "[]"
    /\ calc.op = "history"
    /\ calc.out.logs = logs

Precedence ==
    <<"interview", "standup", "one-on-one", "review", "planning", "presentation",
      "kickoff", "external", "general">>

Rank(type) == CHOOSE i \in 1..Len(Precedence) : Precedence[i] = type

\* the types a title's wording names, with what the attendee list adds
NamedTypes(arg) ==
    UNION {arg.fragments[i].types : i \in 1..Len(arg.fragments)}
        \cup (IF arg.external # <<>> THEN {"external"} ELSE {})
        \cup {"general"}

\* C18: the meeting type is the earliest, in the fixed precedence, of the
\* types the title names (external when only the attendee list is non-empty,
\* general when nothing matches), whatever the case of the letters; a title
\* naming several types gets the earliest.
C18_FirstMatchWins ==
    (calc.op = "meetingType" /\ calc.done) =>
        /\ calc.out \in NamedTypes(calc.arg)
        /\ \A type \in NamedTypes(calc.arg) : Rank(calc.out) <= Rank(type)

\* a title with both 'review' and 'interview', 'review' first, gives interview
C18_Witness ==
    /\ calc.op = "meetingType"
    /\ calc.done
    /\ Len(calc.arg.fragments) = 2
    /\ calc.arg.fragments[1].types = {"review"}
    /\ calc.arg.fragments[2].types = {"interview"}
    /\ calc.arg.external # <<>>
    /\ calc.out = "interview"

FlagsSet(task) ==
    {f \in {"isOverdue", "isDueToday", "isDueThisWeek"} : task[f]}

\* C19: every processed task due before now is overdue and critical whatever
\* its title, at most one of the flags overdue, due-today, due-this-week is
\* set, and none is set for a task without a due date.
C19_OverdueIsCriticalFlagsExclusive ==
    (calc.op = "tasks" /\ calc.done) =>
        /\ Len(calc.out.tasks) = Len(calc.arg.tasks)
        /\ \A i \in 1..Len(calc.out.tasks) :
              LET task == calc.out.tasks[i]
              IN /\ (task.dueDate.set /\ task.dueDate.at < calc.arg.now) =>
                        (task.isOverdue /\ task.prioritySignal = "critical")
                 /\ Cardinality(FlagsSet(task)) <= 1
                 /\ ~task.dueDate.set => FlagsSet(task) = {}

\* an overdue task whose title has no keyword is critical
C19_Witness ==
    /\ calc.op = "tasks"
    /\ calc.done
    /\ calc.arg.now = 1
    /\ Len(calc.out.tasks) = 1
    /\ calc.out.tasks[1].title = <<"B", "u", "d", "g", "e", "t">>
    /\ calc.out.tasks[1].dueDate = Due(0)
    /\ calc.out.tasks[1].isOverdue
    /\ calc.out.tasks[1].prioritySignal = "critical"

\* the tokens of a space-joined keyword string
RECURSIVE TokensOf(_)
TokensOf(k) ==
    IF k = <<>> THEN <<>>
    ELSE LET sp == CHOOSE i \in 1..(Len(k) + 1) :
                       /\ i = Len(k) + 1 \/ k[i] = " "
                       /\ \A j \in 1..(i - 1) : k[j] # " "
         IN <<SubSeq(k, 1, sp - 1)>> \o TokensOf(SubSeq(k, sp + 1, Len(k)))

\* C20: the keyword string has at most 8 tokens; the tokens that come from
\* the title lead it, and none of them is a stop-word (in any case of
\* letters) or has 3 or fewer characters; extracting again from the keywords
\* of a title alone returns them unchanged.
C20_KeywordsCappedCleanIdempotent ==
    (calc.op = "keywords" /\ calc.done) =>
        LET all == TokensOf(calc.out.keywords)
            fromTitle == TokensOf(calc.out.titleOnly)
        IN /\ Len(all) <= 8
           /\ Len(fromTitle) <= Len(all)
           /\ SubSeq(all, 1, Len(fromTitle)) = fromTitle
           /\ \A i \in 1..Len(fromTitle) :
                 /\ Len(fromTitle[i]) > 3
                 /\ ToLower(fromTitle[i]) \notin StopWords
                 /\ \A j \in 1..Len(fromTitle[i]) : fromTitle[i][j] \in AlnumChars
           /\ calc.out.again = calc.out.titleOnly

\* five keywords of the title and three of the description: the cap applied
C20_Witness ==
    /\ calc.op = "keywords"
    /\ calc.done
    /\ Len(TokensOf(calc.out.titleOnly)) = 5
    /\ Len(TokensOf(calc.out.keywords)) = 8
    /\ Includes(ToLower(calc.arg.subject), <<"m", "e", "e", "t", "i", "n", "g">>)
    /\ Len(SelectSeq(SplitWs(Alnumify(StripTags(calc.arg.description))), LAMBDA w : Len(w) > 4)) > 3

Savers == {p \in Procs : inv[p].saved}

\* C21: the token in the row is the one it started with or the one the last
\* applied save of some invocation wrote, never anything else; and two
\* invocations whose saves are both applied can leave the row holding a token
\* older than the latest issued one (the witness), which takes two savers
\* holding different tokens.
C21_StoredTokenIsSomeSaversToken ==
    /\ user.access \in {1} \cup {inv[p].cred : p \in Savers}
    /\ user.access <= issued
    /\ \A p \in Procs : inv[p].cred <= issued
    /\ ((\A p \in Procs : inv[p].pc = "done")
            /\ (\A p \in Procs : inv[p].calls.userWrite = 1 => inv[p].saved)
            /\ user.access # issued) =>
          /\ Savers = Procs
          /\ \E p, q \in Procs : inv[p].cred = issued /\ inv[q].cred = user.access /\ p # q

\* both runs are over, both saves were applied, the row holds the older token
C21_Witness ==
    /\ \A p \in Procs : inv[p].pc = "done" /\ inv[p].saved
    /\ issued = 3
    /\ user.access = 2

Orchestrated(me) == me.feature \in {"brief", "priorities"}

GainsSuccessEntry ==
    /\ Len(inv'[1].logged) > Len(inv[1].logged)
    /\ Last(inv'[1].logged).status = "success"
    /\ Last(inv'[1].logged).meeting_count > 0

SignalDone == calc.op = "eventSignal" /\ calc.done

TitleHas(parts) == \E part \in parts : Includes(ToLower(calc.arg), part)

CriticalWords == {<<"b", "o", "a", "r", "d">>, <<"i", "n", "v", "e", "s", "t", "o", "r">>, <<"d", "e", "a", "d", "l", "i", "n", "e">>, <<"d", "u", "e">>}
EarlierHighWords == {<<"1", ":", "1">>, <<"o", "n", "e", " ", "o", "n", " ", "o", "n", "e">>, <<"1", "-", "1">>, <<"r", "e", "v", "i", "e", "w">>, <<"d", "e", "c", "i", "s", "i", "o", "n">>, <<"a", "l", "l", " ", "h", "a", "n", "d", "s">>, <<"t", "o", "w", "n", " ", "h", "a", "l", "l">>}
LaterWords == {<<"i", "n", "t", "e", "r", "v", "i", "e", "w">>, <<"s", "t", "a", "n", "d", "u", "p">>, <<"s", "y", "n", "c">>}

\* C23 as stated: every title with board, investor, deadline or due is
\* critical, the signal is one of critical, high, normal, and a title that
\* matches no rule is normal.
C23_DeadlineAlwaysCritical ==
    SignalDone =>
        /\ TitleHas(CriticalWords) => calc.out.prioritySignal = "critical"
        /\ calc.out.prioritySignal \in {"critical", "high", "normal"}
        /\ ~TitleHas(CriticalWords \cup EarlierHighWords \cup LaterWords) =>
              calc.out.prioritySignal = "normal"

\* C23 amended: board or investor is always critical; deadline or due is
\* critical unless a rule tested before it (1:1, review/decision, all hands/
\* town hall) matches, and then the signal is high; the signal is one of
\* critical, high, normal, and a title that matches no rule is normal.
C23_DeadlineCriticalUnlessEarlierRule ==
    SignalDone =>
        /\ TitleHas({<<"b", "o", "a", "r", "d">>, <<"i", "n", "v", "e", "s", "t", "o", "r">>}) => calc.out.prioritySignal = "critical"
        /\ (TitleHas(CriticalWords) /\ ~TitleHas(EarlierHighWords)) =>
              calc.out.prioritySignal = "critical"
        /\ (TitleHas(EarlierHighWords) /\ ~TitleHas({<<"b", "o", "a", "r", "d">>, <<"i", "n", "v", "e", "s", "t", "o", "r">>})) =>
              calc.out.prioritySignal = "high"
        /\ calc.out.prioritySignal \in {"critical", "high", "normal"}
        /\ ~TitleHas(CriticalWords \cup EarlierHighWords \cup LaterWords) =>
              calc.out.prioritySignal = "normal"

\* a title with both 'review' and 'deadline' has been given its signal
C23_Witness ==
    /\ SignalDone
    /\ calc.arg = <<"R", "e", "v", "i", "e", "w", " ", "D", "e", "a", "d", "l", "i", "n", "e">>
    /\ calc.out.prioritySignal = "high"

TaskTitleHas(task, parts) == \E part \in parts : Includes(ToLower(task.title), part)

\* C24: the title keywords only escalate: a task whose title has 'urgent',
\* 'critical' or 'asap' is critical whatever its due flags, and one whose
\* title has 'important' or 'priority' is at least high.
C24_KeywordsOnlyEscalate ==
    (calc.op = "tasks" /\ calc.done) =>
        \A i \in 1..Len(calc.out.tasks) :
            LET task == calc.out.tasks[i]
            IN /\ TaskTitleHas(task, {<<"u", "r", "g", "e", "n", "t">>, <<"c", "r", "i", "t", "i", "c", "a", "l">>, <<"a", "s", "a", "p">>}) => task.prioritySignal = "critical"
               /\ TaskTitleHas(task, {<<"i", "m", "p", "o", "r", "t", "a", "n", "t">>, <<"p", "r", "i", "o", "r", "i", "t", "y">>}) => task.prioritySignal \in {"critical", "high"}

EmailsDone == calc.op = "emails" /\ calc.done
TaskOrderDone == calc.op = "taskOrder" /\ calc.done

\* the first n (at most) elements of list, in its order
IsPrefix(shown, list, n) ==
    /\ Len(shown) = (IF Len(list) < n THEN Len(list) ELSE n)
    /\ \A k \in 1..Len(shown) : shown[k] = list[k]

EmailsOrdered ==
    EmailsDone =>
        LET es == calc.out.processed.emails
        IN /\ Len(es) = Len(calc.arg)
           /\ {es[i].snippet : i \in 1..Len(es)} = 1..Len(calc.arg)
           /\ \A i, j \in 1..Len(es) :
                 i < j =>
                   /\ urgencyOrder(es[i].urgencyLevel) <= urgencyOrder(es[j].urgencyLevel)
                   /\ es[i].urgencyLevel = es[j].urgencyLevel => es[i].snippet < es[j].snippet
           /\ IsPrefix(calc.out.context.criticalEmails,
                       SelectSeq(es, LAMBDA e : e.urgencyLevel = "critical"), 5)
           /\ IsPrefix(calc.out.context.actionableEmails,
                       SelectSeq(es, LAMBDA e : e.requiresAction), 8)

TasksOrdered ==
    TaskOrderDone =>
        LET ts == calc.out.processed.tasks
        IN /\ Len(ts) = Len(calc.arg.tasks)
           /\ \A i, j \in 1..Len(ts) :
                 i < j =>
                   /\ PriorityOrder(ts[i].prioritySignal) <= PriorityOrder(ts[j].prioritySignal)
                   /\ ts[i].prioritySignal = ts[j].prioritySignal =>
                         /\ (ts[i].dueDate.set /\ ts[j].dueDate.set) =>
                               ts[i].dueDate.at <= ts[j].dueDate.at
                         /\ ts[j].dueDate.set => ts[i].dueDate.set
           /\ IsPrefix(calc.out.context.overdueTasks,
                       SelectSeq(ts, LAMBDA x : x.isOverdue), 5)

\* the same fetched tasks come out in the same order at every clock reading
SameAtEveryTime ==
    TaskOrderDone =>
        \A now \in NowTimes :
            /\ processTasks(calc.arg.tasks, now).tasks = calc.out.processed.tasks
            /\ TasksContext(processTasks(calc.arg.tasks, now)).overdueTasks
                  = calc.out.context.overdueTasks

\* C25 as stated: emails come out by non-decreasing urgency rank with equals
\* in fetch order, tasks by non-decreasing priority rank and within a rank by
\* ascending due date with undated tasks last, and for the same fetched input
\* the order and the prefixes given to the context are the same on every run.
C25_SameOrderOnEveryRun == EmailsOrdered /\ TasksOrdered /\ SameAtEveryTime

\* C25 amended: the same orderings, and the order and the prefixes given to
\* the context are those of the fetched input sorted at the clock reading of
\* the run: the same on every run made at the same time.
C25_SameOrderAtSameTime ==
    /\ EmailsOrdered
    /\ TasksOrdered
    /\ TaskOrderDone =>
          /\ calc.out.processed = processTasks(calc.arg.tasks, calc.arg.now)
          /\ calc.out.context = TasksContext(calc.out.processed)
    /\ EmailsDone =>
          /\ calc.out.processed = processEmails(calc.arg)
          /\ calc.out.context = EmailsContext(calc.out.processed)

\* an inbox of nine whose first message is only high has been sorted, and the
\* context got the first five of its more than five critical messages
C25_Witness ==
    /\ EmailsDone
    /\ Len(calc.arg) = 9
    /\ calc.arg[1].labelIds = <<"STARRED">>
    /\ calc.out.processed.emails[1].urgencyLevel = "critical"
    /\ Len(calc.out.processed.criticalEmails) > 5
    /\ Len(calc.out.context.criticalEmails) = 5

\* C27: a generate invocation writes the user row only in its token-refresh
\* step and only when the refreshed access token differs from the one it read;
\* the write changes google_access_token and google_token_expiry and nothing
\* else: refresh token, calendar id, goals, name and email stay as they were.
C27_RefreshWritesOnlyAccessAndExpiry ==
    [][user' # user =>
         /\ inv[1].pc = "saveToken"
         /\ inv[1].cred # inv[1].user.access
         /\ user' = [user EXCEPT !.access = inv[1].cred, !.expiry = inv[1].cred]
         /\ \A f \in {"exists", "refresh", "calendar_id", "goals", "name", "email"} :
               user'[f] = user[f]]_vars

\* the refreshed token has been saved and the run is over
C27_Witness ==
    /\ inv[1].pc = "done"
    /\ inv[1].saved
    /\ user.access = 2
    /\ user.expiry = 2
    /\ user.refresh = 1

\* the places (category, position) at which email i was put
PlacesOf(me, i) ==
    UNION {{<<c, k>> : k \in {n \in DOMAIN me.categories[c] : me.categories[c][n] = i}} :
              c \in Categories}

\* C29: for every classification array that parses, no email is put in more
\* than one place across the four lists, and categorizedCount is at most
\* totalEmails.
C29_EachEmailAtMostOnce ==
    (inv[1].classified # <<>> /\ inv[1].classified[1].parses) =>
        /\ \A i \in 1..inv[1].emails : Cardinality(PlacesOf(inv[1], i)) <= 1
        /\ inv[1].categorized <= inv[1].emails

\* the step is an OAuth callback that stored new tokens
CallbackStoresTokens ==
    /\ inv' = inv
    /\ calc'.op \in {"authCallback", "signInCallback"}
    /\ calc'.arg.code = "good"
    /\ calc'.out.location \in {"/?google=connected", "/?auth=success"}
    /\ user'.access = issued'
    /\ issued' = issued + 1

\* C26: once google-disconnect has cleared the row, the stored access token
\* stays null until an OAuth callback stores new tokens: no step of a generate
\* invocation writes an access token into a row that has none.
C26_NoWriteBackAfterDisconnect ==
    [][(user.exists /\ user.access = 0 /\ user'.access # 0) => CallbackStoresTokens]_vars

\* the step is the row read of a generate call, and the store returned the row
ReadsRow ==
    /\ inv[1].pc = "loadUser"
    /\ inv'[1].calls.userRead = inv[1].calls.userRead + 1
    /\ user.exists
    /\ inv'[1].resp # UserNotFound

NothingDone(me) ==
    /\ me.calls.refresh = 0 /\ me.calls.fetch = 0 /\ me.calls.ai = 0 /\ me.calls.send = 0
    /\ me.calls.userWrite = 0
    /\ me.logged = <<>>
    /\ ~me.sent

CallbackStep == inv' = inv /\ calc'.op \in {"authCallback", "signInCallback"}

\* the request lacks the code or, in the connect flow, a state that verifies
BadRequest(op, request) ==
    \/ request.code = "none"
    \/ op = "authCallback" /\ verifyState(request.state) = 0

====
